---- MODULE Spec2Model ----
(***************************************************************************)
(* CropGPT agentic reasoning pipeline: the agent execution contract        *)
(* (backend/agents/base_agent.py), the Query Analyzer and Data Synthesizer *)
(* agents (backend/agents/query_analyzer.py, data_synthesizer.py) and the  *)
(* reasoning orchestrator (backend/agentic_reasoning.py).                  *)
(*                                                                         *)
(* Conventions.  Python text is a sequence of one-character strings.       *)
(* Confidence scores and other fractions are held in hundredths (0.85 is   *)
(* 85).  A JSON/Python number is Num(n); a value that is not a number is   *)
(* NotANumber.  Optional[str] is a sequence of length at most one.  Time   *)
(* is a count of clock ticks.  A Python dict is a function on its keys.    *)
(***************************************************************************)
EXTENDS Integers, Sequences, FiniteSets, TLC

\* ---------------------------------------------------------------- bounds

\* longest required_tools list an analysis stage hands to the dispatcher
MaxTools == 2
\* most ticks the clock advances while one awaited call is suspended
MaxDelay == 1
\* execute calls made on the agent instance under observation
MaxExecutions == 2
\* execute calls that may be suspended in their hook at the same time
MaxInflight == 2
\* process_complex_query calls made on one orchestrator
MaxQueries == 2
\* start_workflow calls that make an instance
MaxStarts == 2
\* seconds the clock of the workflow engine goes through
MaxClock == 1
\* execute_workflow_step calls made on one engine
MaxStepCalls == 3
\* calls that execute again a step that is already COMPLETED
MaxReplays == 1

\* ------------------------------------------------------- Python values

EmptyDict == <<>>
NoneValue == [py |-> "None"]
NoError == <<>>
Some(s) == <<s>>
Num(n) == [kind |-> "num", v |-> n]
NotANumber == [kind |-> "str", v |-> 0]
IsNumber(c) == c.kind = "num"
InUnitInterval(c) == IsNumber(c) /\ 0 <= c.v /\ c.v <= 100

Has(d, k) == k \in DOMAIN d
\* dict.get(k, default)
Get(d, k, default) == IF k \in DOMAIN d THEN d[k] ELSE default
\* d[k] = v on a dict
Put(d, k, v) == [x \in (DOMAIN d) \cup {k} |-> IF x = k THEN v ELSE d[x]]
\* {**a, **b}: b wins on a key of both (and not a)
OverlayFirstWins(a, b) == [x \in (DOMAIN a) \cup (DOMAIN b) |-> IF x \in DOMAIN a THEN a[x] ELSE b[x]]
Overlay(a, b) == [x \in (DOMAIN a) \cup (DOMAIN b) |-> IF x \in DOMAIN b THEN b[x] ELSE a[x]]

\* ----------------------------------------------------------------- text

UpperCase == <<"A", "B", "C", "D", "E", "F", "G", "H", "I", "J", "K", "L", "M",
               "N", "O", "P", "Q", "R", "S", "T", "U", "V", "W", "X", "Y", "Z">>
LowerCase == <<"a", "b", "c", "d", "e", "f", "g", "h", "i", "j", "k", "l", "m",
               "n", "o", "p", "q", "r", "s", "t", "u", "v", "w", "x", "y", "z">>
LowerChar(c) ==
    IF \E i \in DOMAIN UpperCase : UpperCase[i] = c
    THEN LowerCase[CHOOSE i \in DOMAIN UpperCase : UpperCase[i] = c]
    ELSE c
\* str.lower() (and not the text as it came)
LowerUnchanged(s) == s
Lower(s) == [i \in DOMAIN s |-> LowerChar(s[i])]
\* keyword in text (substring test)
Contains(text, keyword) ==
    \E i \in 0 .. (Len(text) - Len(keyword)) :
        \A j \in 1 .. Len(keyword) : text[i + j] = keyword[j]
\* any(keyword in text for keyword in keywords)
AnyKeyword(keywords, text) == \E k \in keywords : Contains(text, k)

agricultural_keywords == {
    <<"c", "r", "o", "p">>,
    <<"f", "a", "r", "m">>,
    <<"a", "g", "r", "i", "c", "u", "l", "t", "u", "r", "e">>,
    <<"s", "o", "i", "l">>,
    <<"p", "l", "a", "n", "t">>,
    <<"h", "a", "r", "v", "e", "s", "t">>,
    <<"i", "r", "r", "i", "g", "a", "t", "i", "o", "n">>,
    <<"p", "e", "s", "t">>,
    <<"d", "i", "s", "e", "a", "s", "e">>,
    <<"f", "e", "r", "t", "i", "l", "i", "z", "e", "r">>,
    <<"s", "e", "e", "d">>,
    <<"w", "e", "a", "t", "h", "e", "r">>,
    <<"p", "r", "i", "c", "e">>,
    <<"m", "a", "r", "k", "e", "t">>,
    <<"w", "h", "e", "a", "t">>,
    <<"r", "i", "c", "e">>,
    <<"c", "o", "t", "t", "o", "n">>,
    <<"t", "o", "m", "a", "t", "o">>,
    <<"p", "o", "t", "a", "t", "o">>,
    <<"m", "a", "n", "d", "i">> }
\* the six Devanagari marker words, by code point
hindi_keywords == {
    <<"U+0915", "U+094D", "U+092F", "U+093E">>,
    <<"U+0915", "U+0948", "U+0938", "U+0947">>,
    <<"U+092E", "U+0947", "U+0930", "U+0947">>,
    <<"U+0915", "U+0940">>,
    <<"U+0939", "U+0948">>,
    <<"U+092E", "U+0947", "U+0902">> }
price_keywords == {
    <<"p", "r", "i", "c", "e">>,
    <<"c", "o", "s", "t">>,
    <<"r", "a", "t", "e">>,
    <<"U+0915", "U+0940", "U+092E", "U+0924">>,
    <<"U+0926", "U+093E", "U+092E">>,
    <<"U+092D", "U+093E", "U+0935">> }
search_keywords == {
    <<"l", "a", "t", "e", "s", "t">>,
    <<"n", "e", "w", "s">>,
    <<"r", "e", "c", "e", "n", "t">>,
    <<"c", "u", "r", "r", "e", "n", "t">>,
    <<"n", "e", "w">>,
    <<"r", "e", "s", "e", "a", "r", "c", "h">> }

\* "What is wheat price in Punjab?"
WheatPriceQuery ==
    <<"W", "h", "a", "t", " ", "i", "s", " ", "w", "h", "e", "a", "t", " ",
      "p", "r", "i", "c", "e", " ", "i", "n", " ", "P", "u", "n", "j", "a", "b", "?">>
\* "Latest cricket NEWS"
CricketNewsQuery ==
    <<"L", "a", "t", "e", "s", "t", " ", "c", "r", "i", "c", "k", "e", "t", " ",
      "N", "E", "W", "S">>
\* the Hindi for "price of wheat"
HindiPriceQuery ==
    <<"U+0917", "U+0947", "U+0939", "U+0942", "U+0902", " ", "U+0915", "U+0940", " ",
      "U+0915", "U+0940", "U+092E", "U+0924">>
\* "MANDI"
MandiQuery == <<"M", "A", "N", "D", "I">>
EmptyText == <<>>
\* the texts a caller sends
Messages == {WheatPriceQuery, CricketNewsQuery, HindiPriceQuery, MandiQuery, EmptyText}

\* ------------------------------------------------- the LLM collaborator

\* What generate_response hands back is text, held as tokens: the two fence
\* markers, prose, a line break, and one JSON document whose value is doc.
\* three backquotes followed by json
FenceJson == "fence-json"
\* three backquotes
Fence == "fence"
Prose == "prose"
LineBreak == "line-break"
JsonDocument == "json-document"
ReplyTokens == {FenceJson, Fence, Prose, LineBreak, JsonDocument}

\* The texts the collaborator writes around its document: bare, fenced either
\* way with and without line breaks and prose, an unclosed fence; and texts
\* that do not parse: prose alone, prose before the document, prose inside the
\* fence, the document outside the fence.
ReplyShapes == {
    <<JsonDocument>>,
    <<LineBreak, JsonDocument, LineBreak>>,
    <<FenceJson, LineBreak, JsonDocument, LineBreak, Fence>>,
    <<Prose, LineBreak, FenceJson, JsonDocument, Fence, LineBreak, Prose>>,
    <<Fence, LineBreak, JsonDocument, LineBreak, Fence>>,
    <<FenceJson, JsonDocument>>,
    <<Prose>>,
    <<Prose, LineBreak, JsonDocument>>,
    <<FenceJson, Prose, JsonDocument, Fence>>,
    <<JsonDocument, LineBreak, Fence, Prose, Fence>> }

\* "marker" in text
Mentions(text, markers) == \E i \in DOMAIN text : text[i] \in markers
FirstIndex(text, markers) == CHOOSE i \in DOMAIN text : text[i] \in markers /\ \A j \in 1 .. (i - 1) : text[j] \notin markers
\* text.split(marker)[1], 
AfterFirst(text, markers) == SubSeq(text, FirstIndex(text, markers) + 1, Len(text))
\* text.split(marker)[0]
UpToFirst(text, markers) ==
    IF Mentions(text, markers) THEN SubSeq(text, 1, FirstIndex(text, markers) - 1) ELSE text
RECURSIVE Strip(_)
\* str.strip()
Strip(text) ==
    IF text = <<>> THEN text
    ELSE IF Head(text) = LineBreak THEN Strip(Tail(text))
    ELSE IF text[Len(text)] = LineBreak THEN Strip(SubSeq(text, 1, Len(text) - 1))
    ELSE text

\* The fence stripping of the two agents.  The json fence begins with the plain
\* fence, so a split on the plain fence stops at either marker.
ExtractJsonStr(response) ==
    IF Mentions(response, {FenceJson})
    THEN Strip(UpToFirst(AfterFirst(response, {FenceJson}), {Fence, FenceJson}))
    ELSE IF Mentions(response, {Fence})
    THEN Strip(UpToFirst(AfterFirst(response, {Fence}), {Fence}))
    ELSE Strip(response)

\* json.loads: the text must be exactly one JSON document (a lenient decoder
\* would take any text that holds one)
JsonDecodesLeniently(json_str) == Mentions(json_str, {JsonDocument})
JsonDecodes(json_str) == json_str = <<JsonDocument>>

\* A JSON value: an object (a dict) or anything else (a list, a number, ...)
JsonObject(fields) == [type |-> "object", fields |-> fields]
JsonArray == [type |-> "array", fields |-> EmptyDict]
NoDocument == [type |-> "none", fields |-> EmptyDict]

\* messages of the faults generate_response raises; asyncio.TimeoutError()
\* and its like carry no message
LLMFaultMessages == {"", "Connection refused"}

\* an agent whose hook does not consult the collaborator
NoReply == [kind |-> "none", tokens |-> <<>>, doc |-> NoDocument, message |-> ""]
TextReply(shape, doc) == [kind |-> "text", tokens |-> shape, doc |-> doc, message |-> ""]
FaultReply(msg) == [kind |-> "raise", tokens |-> <<>>, doc |-> NoDocument, message |-> msg]
\* the replies over the documents docs: a fault, every document bare, the
\* document wrapped in every shape that decodes, and the shapes that do not
\* decode, whose document is never looked at
Replies(docs, wrapped) ==
    {FaultReply(m) : m \in LLMFaultMessages}
    \cup {TextReply(s, NoDocument) : s \in {t \in ReplyShapes : ~JsonDecodes(ExtractJsonStr(t))}}
    \cup {TextReply(<<JsonDocument>>, d) : d \in docs}
    \cup {TextReply(s, wrapped) : s \in {t \in ReplyShapes : JsonDecodes(ExtractJsonStr(t))}}

\* ------------------------------------------------------ AgentResult

AgentResult(success, data, confidence, reasoning_steps, error, metadata) ==
    [success |-> success, data |-> data, confidence |-> confidence,
     reasoning_steps |-> reasoning_steps, error |-> error, metadata |-> metadata]

\* what a hook does: hand back an AgentResult, raise, or hand back something
\* that is no AgentResult (None)
NoResult == AgentResult(FALSE, EmptyDict, Num(0), <<>>, NoError, EmptyDict)
Returned(result) == [kind |-> "result", message |-> "", result |-> result]
Raised(msg) == [kind |-> "raise", message |-> msg, result |-> NoResult]
ReturnedNone == [kind |-> "none", message |-> "", result |-> NoResult]

\* ------------------------------------------------------ Query Analyzer

\* the order in which _validate_and_enhance_analysis tests the flags
AnalyzerTools ==
    <<"crop-price", "web-search", "soil-health", "weather-predictor", "pest-identifier", "mandi-tracker">>
NeedsFlags ==
    <<"needs_crop_price", "needs_web_search", "needs_soil_health", "needs_weather", "needs_pest_id", "needs_mandi_tracker">>

\* Python truth of a flag value
Truthy(v) == v = TRUE

GetDefaultValue(field, user_message) ==
    CASE field = "is_agricultural" -> TRUE
      [] field = "language" -> "en"
      [] field = "complexity_level" -> "simple"

ChainDepthFor(complexity) ==
    CASE complexity = "simple" -> 1
      [] complexity = "moderate" -> 2
      [] complexity = "complex" -> 3
      [] OTHER -> 1

\* tools_needed, built by the six tests in source order (and not the sequence
\* the document carries)
ToolsNeededLLMOrder(analysis) == Get(analysis, "expected_tools_sequence", <<>>)
ToolsNeeded(analysis) ==
    LET upto[i \in 0 .. Len(AnalyzerTools)] ==
            IF i = 0 THEN <<>>
            ELSE IF Truthy(Get(analysis, NeedsFlags[i], FALSE))
                 THEN Append(upto[i - 1], AnalyzerTools[i])
                 ELSE upto[i - 1]
    IN  upto[Len(AnalyzerTools)]

BackfillRequired(analysis, user_message) ==
    LET a1 == IF Has(analysis, "is_agricultural") THEN analysis
              ELSE Put(analysis, "is_agricultural", GetDefaultValue("is_agricultural", user_message))
        a2 == IF Has(a1, "language") THEN a1
              ELSE Put(a1, "language", GetDefaultValue("language", user_message))
    IN  IF Has(a2, "complexity_level") THEN a2
        ELSE Put(a2, "complexity_level", GetDefaultValue("complexity_level", user_message))

ValidateAndEnhanceAnalysis(analysis, user_message) ==
    LET a1 == BackfillRequired(analysis, user_message)
        a2 == IF Has(a1, "confidence") THEN a1 ELSE Put(a1, "confidence", Num(70))
        a3 == IF Has(a2, "reasoning_chain_depth") THEN a2
              ELSE Put(a2, "reasoning_chain_depth", ChainDepthFor(Get(a2, "complexity_level", "simple")))
    IN  Put(a3, "expected_tools_sequence", ToolsNeeded(a3))

CreateFallbackAnalysis(user_message) ==
    LET message_lower == Lower(user_message)
        is_agricultural == AnyKeyword(agricultural_keywords, message_lower)
        language == IF AnyKeyword(hindi_keywords, user_message) THEN "hi" ELSE "en"
        needs_crop_price == AnyKeyword(price_keywords, message_lower)
        needs_web_search == AnyKeyword(search_keywords, message_lower)
    IN  [is_agricultural |-> is_agricultural,
         language |-> language,
         complexity_level |-> "simple",
         reasoning_chain_depth |-> 1,
         needs_crop_price |-> needs_crop_price,
         needs_web_search |-> needs_web_search,
         needs_soil_health |-> FALSE,
         needs_weather |-> FALSE,
         needs_pest_id |-> FALSE,
         needs_mandi_tracker |-> FALSE,
         crop_price_params |-> [state |-> <<>>, commodity |-> <<>>, district |-> <<>>],
         search_query |-> IF needs_web_search THEN user_message ELSE <<>>,
         reasoning_steps |-> <<"analyze_query", "provide_response">>,
         expected_tools_sequence |-> <<>>,
         synthesis_requirements |-> <<>>,
         confidence |-> Num(50)]

\* pydantic's check of the AgentResult fields: confidence a float, every
\* reasoning step a ReasoningStep
IsReasoningStep(x) == x.type = "ReasoningStep"
AgentResultValidates(confidence, reasoning_steps) ==
    /\ IsNumber(confidence)
    /\ \A i \in DOMAIN reasoning_steps : IsReasoningStep(reasoning_steps[i])

\* the analysis documents the LLM writes
FlagsOf(truthy) ==
    [k \in {NeedsFlags[i] : i \in DOMAIN NeedsFlags} |->
        \E i \in DOMAIN NeedsFlags : NeedsFlags[i] = k /\ AnalyzerTools[i] \in truthy]
LLMSuggestedSequence == <<"mandi-tracker", "crop-price">>
ConfidenceWritten == {Num(90), Num(150), NotANumber}
FullAnalysis(truthy) ==
    Overlay(FlagsOf(truthy),
            [is_agricultural |-> TRUE, language |-> "en", complexity_level |-> "complex",
             expected_tools_sequence |-> LLMSuggestedSequence])
NonAgriculturalAnalysis == [is_agricultural |-> FALSE, language |-> "en"]
AnalyzerToolSet == {AnalyzerTools[i] : i \in DOMAIN AnalyzerTools}
AnalysisDocs ==
    {JsonObject(FullAnalysis(t)) : t \in SUBSET AnalyzerToolSet}
    \cup {JsonObject(Put(FullAnalysis({"crop-price", "weather-predictor"}), "confidence", c)) :
            c \in ConfidenceWritten}
    \cup {JsonObject(NonAgriculturalAnalysis), JsonObject(EmptyDict), JsonArray}

QueryAnalyzerEmergency(user_message, msg) ==
    Returned(AgentResult(FALSE, CreateFallbackAnalysis(user_message), Num(30), <<>>, Some(msg),
                         [emergency_fallback |-> TRUE]))

\* QueryAnalyzerAgent._process on the collaborator's reply
QueryAnalyzerProcess(input_data, reply) ==
    LET user_message == Get(input_data, "user_message", <<>>)
        json_str == ExtractJsonStr(reply.tokens)
    IN  IF reply.kind = "raise" THEN QueryAnalyzerEmergency(user_message, reply.message)
        ELSE IF ~JsonDecodes(json_str)
        THEN Returned(AgentResult(TRUE, CreateFallbackAnalysis(user_message), Num(50), <<>>, NoError,
                                  [fallback_used |-> TRUE, parse_error |-> "Expecting value"]))
        ELSE IF reply.doc.type # "object"
        THEN QueryAnalyzerEmergency(user_message, "list indices must be integers or slices, not str")
        ELSE LET analysis == ValidateAndEnhanceAnalysis(reply.doc.fields, user_message)
                 confidence == Get(analysis, "confidence", Num(80))
             IN  IF ~AgentResultValidates(confidence, <<>>)
                 THEN QueryAnalyzerEmergency(user_message, "1 validation error for AgentResult")
                 ELSE Returned(AgentResult(TRUE, analysis, confidence, <<>>, NoError,
                                           [query_length |-> Len(user_message),
                                            complexity |-> Get(analysis, "complexity_level", "simple"),
                                            tools_required |-> Len(Get(analysis, "expected_tools_sequence", <<>>))]))

\* ----------------------------------------------------- Data Synthesizer

GetDefaultSynthesisValue(field) ==
    CASE field = "synthesis_summary" -> "Data synthesis completed with available information"
      [] field = "confidence_score" -> Num(70)
      [] OTHER -> <<>>

SynthesisRequiredFields ==
    <<"synthesis_summary", "correlations_found", "conflicts_identified",
      "integrated_insights", "risk_factors", "confidence_score">>

ValidateSynthesis(synthesis, tool_results) ==
    LET filled[i \in 0 .. Len(SynthesisRequiredFields)] ==
            IF i = 0 THEN synthesis
            ELSE IF Has(filled[i - 1], SynthesisRequiredFields[i]) THEN filled[i - 1]
                 ELSE Put(filled[i - 1], SynthesisRequiredFields[i],
                          GetDefaultSynthesisValue(SynthesisRequiredFields[i]))
        s1 == filled[Len(SynthesisRequiredFields)]
        s2 == IF ~InUnitInterval(s1["confidence_score"]) THEN Put(s1, "confidence_score", Num(70)) ELSE s1
    IN  IF Has(s2, "data_quality_assessment") THEN s2
        ELSE Put(s2, "data_quality_assessment",
                 [completeness |-> (Cardinality(DOMAIN tool_results) * 100) \div 5,
                  reliability |-> 80, timeliness |-> 90])

Min(a, b) == IF a <= b THEN a ELSE b

CreateFallbackSynthesis(tool_results, query) ==
    LET correlations ==
            IF Has(tool_results, "weather") /\ Has(tool_results, "crop-price")
            THEN <<[sources |-> <<"weather", "crop-price">>,
                    correlation |-> "Weather conditions may affect crop prices",
                    impact |-> "Monitor weather for market timing decisions",
                    confidence |-> Num(70)]>>
            ELSE <<>>
        insights ==
            IF Has(tool_results, "soil-health") /\ Has(tool_results, "crop-price")
            THEN <<[insight |-> "Soil conditions should be considered alongside market prices for crop selection",
                    supporting_data |-> <<"soil-health", "crop-price">>,
                    actionability |-> "high", timeline |-> "immediate"]>>
            ELSE <<>>
        risks ==
            IF Has(tool_results, "pest-identifier")
               /\ Get(tool_results["pest-identifier"], "severity", "") \in {"high", "severe"}
            THEN <<[risk |-> "Pest infestation detected", probability |-> "high",
                    mitigation |-> "Immediate treatment recommended"]>>
            ELSE <<>>
    IN  [synthesis_summary |-> [analyzed_sources |-> Cardinality(DOMAIN tool_results)],
         correlations_found |-> correlations,
         conflicts_identified |-> <<>>,
         integrated_insights |-> insights,
         risk_factors |-> risks,
         confidence_score |-> Num(60),
         data_quality_assessment |->
            [completeness |-> Min((Cardinality(DOMAIN tool_results) * 100) \div 3, 100),
             reliability |-> 70, timeliness |-> 80]]

\* the list of plain strings _extract_reasoning_steps builds
PlainString(text) == [type |-> "str", text |-> text]
ExtractReasoningSteps(synthesis) ==
    LET steps ==
            (IF Get(synthesis, "correlations_found", <<>>) # <<>>
             THEN <<PlainString("Identified correlations between data sources")>> ELSE <<>>)
            \o (IF Get(synthesis, "conflicts_identified", <<>>) # <<>>
                THEN <<PlainString("Detected and resolved data conflicts")>> ELSE <<>>)
            \o (IF Get(synthesis, "integrated_insights", <<>>) # <<>>
                THEN <<PlainString("Generated integrated insights from multiple sources")>> ELSE <<>>)
            \o (IF Get(synthesis, "risk_factors", <<>>) # <<>>
                THEN <<PlainString("Assessed risks based on combined data")>> ELSE <<>>)
    IN  IF steps # <<>> THEN steps ELSE <<PlainString("Performed basic data synthesis")>>

DataSynthesizerEmergency(tool_results, query, msg) ==
    Returned(AgentResult(FALSE, CreateFallbackSynthesis(tool_results, query), Num(40), <<>>, Some(msg),
                         [emergency_fallback |-> TRUE]))

\* DataSynthesizerAgent._process on the collaborator's reply
DataSynthesizerProcess(input_data, reply) ==
    LET query == Get(input_data, "query", <<>>)
        tool_results == Get(input_data, "tool_results", EmptyDict)
        json_str == ExtractJsonStr(reply.tokens)
    IN  IF reply.kind = "raise" THEN DataSynthesizerEmergency(tool_results, query, reply.message)
        ELSE IF ~JsonDecodes(json_str)
        THEN Returned(AgentResult(TRUE, CreateFallbackSynthesis(tool_results, query), Num(60), <<>>, NoError,
                                  [fallback_used |-> TRUE, parse_error |-> "Expecting value"]))
        ELSE IF reply.doc.type # "object"
        THEN DataSynthesizerEmergency(tool_results, query, "list indices must be integers or slices, not str")
        ELSE LET synthesis == ValidateSynthesis(reply.doc.fields, tool_results)
                 confidence == Get(synthesis, "confidence_score", Num(80))
                 reasoning_steps == ExtractReasoningSteps(synthesis)
             IN  IF ~AgentResultValidates(confidence, reasoning_steps)
                 THEN DataSynthesizerEmergency(tool_results, query, "1 validation error for AgentResult")
                 ELSE Returned(AgentResult(TRUE, synthesis, confidence, reasoning_steps, NoError,
                                           [tools_synthesized |-> DOMAIN tool_results,
                                            correlations_count |-> Len(Get(synthesis, "correlations_found", <<>>)),
                                            insights_count |-> Len(Get(synthesis, "integrated_insights", <<>>))]))

\* ------------------------------------------------- the tool dispatcher

\* the table _execute_tool_step looks the name up in (its local tool_results)
ToolTable ==
    [t \in {"crop-price", "weather", "soil-health", "pest-identifier"} |->
        CASE t = "crop-price" ->
                [wheat_price |-> 2500, rice_price |-> 3200, market_trend |-> "stable",
                 best_market |-> "Ludhiana Mandi"]
          [] t = "weather" ->
                [temperature |-> 28, humidity |-> 65, rainfall_forecast |-> "light_rain_expected",
                 irrigation_recommendation |-> "reduce_watering"]
          [] t = "soil-health" ->
                [ph_level_tenths |-> 68, nitrogen |-> "medium", phosphorus |-> "low", potassium |-> "high",
                 recommendation |-> "add_phosphorus_fertilizer"]
          [] t = "pest-identifier" ->
                [pest_detected |-> "aphids", severity |-> "moderate", treatment |-> "neem_oil_spray",
                 cost_estimate |-> 500]]
ToolNotFound == [status |-> "tool_not_found"]
\* tool_results.get(tool_name, {'status': 'tool_not_found'}) (and not an entry
\* of the table whatever the name)
ToolLookupAlwaysFirst(tool_name) == ToolTable["crop-price"]
ToolLookup(tool_name) == Get(ToolTable, tool_name, ToolNotFound)

\* every tool name either component knows
ToolNames == (DOMAIN ToolTable) \cup AnalyzerToolSet

\* ------------------------------------------------------------ BaseAgent

\* the agent classes: the two of the repository, and any other subclass of
\* BaseAgent, whose hook is free
QueryAnalyzer == "Query Analyzer"
DataSynthesizer == "Data Synthesizer"
OtherAgent == "Other Agent"
AgentNames == {QueryAnalyzer, DataSynthesizer, OtherAgent}

\* the payloads callers hand to execute: for the synthesizer, no result, one,
\* the pairs and triples its fallback rules look for, and one per known tool
ResultsOf(names) == [t \in names |-> ToolLookup(t)]
SevereInfestation == [t \in {"pest-identifier"} |-> [pest_detected |-> "locusts", severity |-> "severe"]]
ToolResultMaps ==
    {ResultsOf({}), ResultsOf({"crop-price"}), ResultsOf({"weather", "crop-price"}),
     ResultsOf({"soil-health", "crop-price", "pest-identifier"}), ResultsOf(ToolNames),
     SevereInfestation}
InputsOf(name) ==
    CASE name = QueryAnalyzer ->
            {[user_message |-> m] : m \in Messages}
            \cup {[query |-> WheatPriceQuery, context |-> EmptyDict]}
      [] name = DataSynthesizer ->
            {[query |-> WheatPriceQuery, tool_results |-> tr, context |-> EmptyDict] :
                tr \in ToolResultMaps}
      [] OTHER -> {[task |-> "advise"]}

\* the synthesis documents the LLM writes
SynthesisDocs ==
    {JsonObject(EmptyDict), JsonArray,
     JsonObject([synthesis_summary |-> "Prices are stable and rain is expected",
                 correlations_found |-> <<[sources |-> <<"weather", "crop-price">>]>>,
                 data_quality_assessment |-> [completeness |-> 100, reliability |-> 90, timeliness |-> 90]])}
    \cup {JsonObject([confidence_score |-> c]) : c \in ConfidenceWritten}

\* what the hook of each class can do on a payload
OtherHookOutcomes ==
    {Returned(AgentResult(TRUE, [answer |-> "sow early"], Num(80), <<>>, NoError, EmptyDict)),
     Returned(AgentResult(FALSE, EmptyDict, Num(20), <<>>, Some("no data"), EmptyDict)),
     Raised(""), Raised("hook failed"), ReturnedNone}
AnalysisReplies == Replies(AnalysisDocs, JsonObject(FullAnalysis({"crop-price", "mandi-tracker"})))
SynthesisReplies == Replies(SynthesisDocs, JsonObject(EmptyDict))
\* the runs of the hook on a payload: the collaborator's reply and what the
\* hook makes of it
HookRuns(name, input_data) ==
    CASE name = QueryAnalyzer ->
            {[reply |-> r, hook |-> QueryAnalyzerProcess(input_data, r)] : r \in AnalysisReplies}
      [] name = DataSynthesizer ->
            {[reply |-> r, hook |-> DataSynthesizerProcess(input_data, r)] : r \in SynthesisReplies}
      [] OTHER -> {[reply |-> NoReply, hook |-> h] : h \in OtherHookOutcomes}

\* success_rate is a fraction n/d in lowest terms
RECURSIVE Gcd(_, _)
Gcd(a, b) == IF b = 0 THEN a ELSE Gcd(b, a % b)
Fraction(n, d) == LET g == Gcd(n, d) IN [n |-> n \div g, d |-> d \div g]
\* (success_rate * (execution_count - 1) + credit) / execution_count, on
\* success and on failure alike (and not the old rate kept on a failure)
UpdatedRateOnSuccessOnly(rate, count, credit) ==
    IF credit = 1 THEN Fraction(rate.n * (count - 1) + credit * rate.d, rate.d * count) ELSE rate
UpdatedRate(rate, count, credit) == Fraction(rate.n * (count - 1) + credit * rate.d, rate.d * count)

\* except Exception (line 82) takes every fault the try block raises (and not
\* only those that carry a message)
ExecuteCatchesNamedFaults(message) == message # ""
ExecuteCatches(message) == TRUE

BaseReasoningStep(name, input_data, result, duration, timestamp) ==
    [type |-> "ReasoningStep", step_name |-> name, input_data |-> input_data,
     output_data |-> result.data, duration |-> duration, confidence |-> result.confidence,
     agent_used |-> name, timestamp |-> timestamp]

FailedResult(name, message, duration) ==
    AgentResult(FALSE, EmptyDict, Num(0), <<>>, Some(message), [duration |-> duration, agent |-> name])

\* BaseAgent.execute from the point where the hook's await resumes: what it
\* hands back (or that it raises) and the counters it leaves.  count, rate and
\* total are the instance fields as read at that point.
ExecuteOutcome(name, input_data, hook, duration, timestamp, count, rate, total) ==
    CASE hook.kind = "result" ->
            [raised |-> FALSE,
             result |-> [hook.result EXCEPT !.reasoning_steps =
                            Append(@, BaseReasoningStep(name, input_data, hook.result, duration, timestamp))],
             total_execution_time |-> total + duration,
             success_rate |-> UpdatedRate(rate, count, IF hook.result.success THEN 1 ELSE 0)]
      [] hook.kind = "none" ->
            \* line 57 has added the duration before line 63 faults on result.data
            [raised |-> ~ExecuteCatches("'NoneType' object has no attribute 'data'"),
             result |-> FailedResult(name, "'NoneType' object has no attribute 'data'", duration),
             total_execution_time |-> total + duration + duration,
             success_rate |-> UpdatedRate(rate, count, 0)]
      [] hook.kind = "raise" ->
            [raised |-> ~ExecuteCatches(hook.message),
             result |-> FailedResult(name, hook.message, duration),
             total_execution_time |-> total + duration,
             success_rate |-> UpdatedRate(rate, count, 0)]

\* ---------------------------------------------------------------- state

VARIABLES
    \* the agent instance under observation and its counters
    agent, execution_count, total_execution_time, success_rate,
    \* how many of its execute calls handed back success=True, for reference
    succeeded,
    \* its execute calls suspended in the hook, and the call that has just returned
    calls, returned,
    \* time.time()
    now,
    \* the orchestrator: what __init__ bound, and process_complex_query's locals
    agent_binding, performance_metrics, queries_made,
    \* what the calls returned so far took and recorded, for reference
    completed,
    \* the runs suspended at the await of line 130 while another run has the
    \* event loop, and the time at which the run's agent stage was entered
    suspended, stage_start,
    pc, query, context, start_time, reasoning_chain, required_tools, complexity_level,
    tool_index, tool_results, synthesized_data, response,
    \* the workflow engine: its templates, the instance objects it has made
    \* (in order of creation), the instance ids that name them, the records of
    \* db.workflow_instances, the execute_workflow_step calls waiting on their
    \* tools, and what the last call returned
    workflows, workflow_objects, user_workflow_instances, db_workflow_instances,
    step_calls, workflow_result,
    \* how many execute_workflow_step calls were made, for reference
    step_calls_made

agent_vars == <<agent, execution_count, total_execution_time, success_rate, succeeded, calls, returned>>
orchestrator_vars ==
    <<agent_binding, performance_metrics, queries_made, completed, suspended, stage_start, pc, query, context, start_time,
      reasoning_chain, required_tools, complexity_level, tool_index, tool_results,
      synthesized_data, response>>
workflow_vars ==
    <<workflows, workflow_objects, user_workflow_instances, db_workflow_instances,
      step_calls, workflow_result, step_calls_made>>
vars == <<agent_vars, now, orchestrator_vars, workflow_vars>>

\* ------------------------------------------------- BaseAgent.execute

IdleCall == [active |-> FALSE, input_data |-> EmptyDict, start_time |-> 0]
NothingReturned ==
    [present |-> FALSE, raised |-> FALSE, reply |-> NoReply, hook |-> ReturnedNone,
     input_data |-> EmptyDict,
     result |-> NoResult, duration |-> 0, total_before |-> 0, rate_before |-> Fraction(0, 1)]

\* BaseAgent.__init__
InitAgentFields ==
    /\ execution_count = 0
    /\ total_execution_time = 0
    /\ success_rate = Fraction(0, 1)
    /\ succeeded = 0
    /\ calls = [c \in 1 .. MaxInflight |-> IdleCall]
    /\ returned = NothingReturned
    /\ now = 0

\* execute up to the hook's await (lines 46-53): the counter is stepped and
\* the start time taken.  The call is kept in the first free place of calls.
ExecuteBegin(c, input_data) ==
    /\ ~returned.present
    /\ ~calls[c].active
    /\ \A i \in 1 .. (c - 1) : calls[i].active
    /\ execution_count < MaxExecutions
    /\ execution_count' = execution_count + 1
    /\ calls' = [calls EXCEPT ![c] = [active |-> TRUE, input_data |-> input_data, start_time |-> now]]
    /\ UNCHANGED <<workflow_vars, agent, total_execution_time, success_rate, succeeded, returned, now, orchestrator_vars>>

\* execute from the hook's completion to its return (lines 53-98)
ExecuteReturn(c, run, delay) ==
    LET hook == run.hook
        duration == now + delay - calls[c].start_time
        outcome == ExecuteOutcome(agent, calls[c].input_data, hook, duration, now + delay,
                                  execution_count, success_rate, total_execution_time)
    IN  /\ ~returned.present
        /\ calls[c].active
        /\ now' = now + delay
        /\ calls' = [calls EXCEPT ![c] = IdleCall]
        /\ total_execution_time' = outcome.total_execution_time
        /\ success_rate' = outcome.success_rate
        /\ succeeded' = succeeded + (IF ~outcome.raised /\ outcome.result.success THEN 1 ELSE 0)
        /\ returned' = [present |-> TRUE, raised |-> outcome.raised, reply |-> run.reply,
                        hook |-> hook,
                        input_data |-> calls[c].input_data, result |-> outcome.result,
                        duration |-> duration, total_before |-> total_execution_time,
                        rate_before |-> success_rate]
        /\ UNCHANGED <<workflow_vars, agent, execution_count, orchestrator_vars>>

\* the caller takes what execute handed back
ResultTaken ==
    /\ returned.present
    /\ returned' = NothingReturned
    /\ UNCHANGED <<workflow_vars, agent, execution_count, total_execution_time, success_rate, succeeded, calls, now,
                   orchestrator_vars>>

NextAgent ==
    \/ \E c \in 1 .. MaxInflight, input_data \in InputsOf(agent) : ExecuteBegin(c, input_data)
    \/ \E c \in {i \in 1 .. MaxInflight : calls[i].active /\ ~returned.present} :
          \E run \in HookRuns(agent, calls[c].input_data), delay \in 0 .. MaxDelay :
              ExecuteReturn(c, run, delay)
    \/ ResultTaken

\* ------------------------------------------------------- the orchestrator

\* what __init__ (lines 30-33) binds to query_analyzer and data_synthesizer:
\* the two agent classes, or None without a cerebras_service.  Neither has a
\* process method (base_agent.py defines execute and _process only).  The
\* third binding stands for objects that do supply the process method that
\* _execute_reasoning_step calls.
Constructed == "constructed"
Unbound == "unbound"
Processors == "processors"
Bindings == {Constructed, Unbound, Processors}

\* agent.__class__.__name__
ClassName(binding, step_id) ==
    CASE binding = Unbound -> "NoneType"
      [] binding = Constructed /\ step_id = "query_analysis" -> "QueryAnalyzerAgent"
      [] binding = Constructed /\ step_id = "data_synthesis" -> "DataSynthesizerAgent"
      [] binding = Processors /\ step_id = "query_analysis" -> "AnalysisProcessor"
      [] OTHER -> "SynthesisProcessor"

ProcessReturned(output) == [kind |-> "mapping", output |-> output, message |-> ""]
ProcessRaised(msg) == [kind |-> "raise", output |-> EmptyDict, message |-> msg]
ProcessReturnedNone == [kind |-> "none", output |-> EmptyDict, message |-> ""]

\* a required_tools value: a list of names, or a truthy value that cannot be
\* iterated (a number, true)
ListValue(items) == [list |-> TRUE, items |-> items]
NotAList == [list |-> FALSE, items |-> <<>>]
\* an entry of required_tools that is itself a list: it cannot be a key of
\* the tool table (line 186)
UnhashableName == "[]"

RECURSIVE SeqsUpTo(_, _)
\* the sequences over S of length 0 .. n
SeqsUpTo(S, n) ==
    IF n = 0 THEN {<<>>}
    ELSE LET shorter == SeqsUpTo(S, n - 1)
         IN  shorter \cup {Append(q, x) : q \in {t \in shorter : Len(t) = n - 1}, x \in S}

\* names an analysis asks for: one the dispatcher knows, one it does not
RequestedNames == {"crop-price", "web-search"}
RequiredToolsLists == SeqsUpTo(RequestedNames, MaxTools)

\* what a process method can hand back at the analysis stage
AnalysisMappings ==
    {[required_tools |-> ListValue(l)] : l \in RequiredToolsLists}
    \cup {[required_tools |-> ListValue(<<"crop-price">>), confidence |-> c] : c \in ConfidenceWritten}
    \cup {EmptyDict,
          [required_tools |-> NotAList],
          [required_tools |-> ListValue(<<"crop-price", UnhashableName>>)],
          [required_tools |-> ListValue(<<"crop-price", "weather">>), complexity_level |-> "complex",
           confidence |-> Num(95)],
          ValidateAndEnhanceAnalysis(FullAnalysis({"crop-price"}), WheatPriceQuery)}
SynthesisMappings ==
    {[synthesis_summary |-> "Prices are stable and rain is expected", confidence_score |-> Num(90)],
     [synthesis_summary |-> "Sell before the rain", confidence |-> Num(150)]}
ProcessFaultMessages == {"", "upstream unavailable"}

\* what `await agent.process(input_data)` (line 130) does under each binding
ProcessOutcomes(binding, step_id) ==
    CASE binding = Constructed /\ step_id = "query_analysis" ->
            {ProcessRaised("'QueryAnalyzerAgent' object has no attribute 'process'")}
      [] binding = Constructed /\ step_id = "data_synthesis" ->
            {ProcessRaised("'DataSynthesizerAgent' object has no attribute 'process'")}
      [] binding = Unbound -> {ProcessRaised("'NoneType' object has no attribute 'process'")}
      [] OTHER ->
            {ProcessReturned(m) : m \in IF step_id = "query_analysis" THEN AnalysisMappings ELSE SynthesisMappings}
            \cup {ProcessRaised(m) : m \in ProcessFaultMessages}
            \cup {ProcessReturnedNone}
\* the attribute fault is raised at once; a process method is awaited
ProcessDelays(binding) == IF binding = Processors THEN 0 .. MaxDelay ELSE {0}

ReasoningStep(step_id, agent_name, input_data, output_data, execution_time, confidence_score) ==
    [step_id |-> step_id, agent_name |-> agent_name, input_data |-> input_data,
     output_data |-> output_data, execution_time |-> execution_time,
     confidence_score |-> confidence_score]

\* context or {}
ContextOrEmpty(ctx) == IF ctx = NoneValue THEN EmptyDict ELSE ctx

\* _execute_reasoning_step (lines 125-150): the step of what process returned,
\* with its confidence or 0.8; on any fault the step of the fault's text, with
\* confidence 0.0 (and not the 0.8 of a step without a confidence)
ExecuteReasoningStepDefaultConfidence(step_id, agent_name, input_data, outcome, execution_time) ==
    CASE outcome.kind = "mapping" ->
            ReasoningStep(step_id, agent_name, input_data, outcome.output, execution_time,
                          Get(outcome.output, "confidence", Num(80)))
      [] outcome.kind = "none" ->
            ReasoningStep(step_id, agent_name, input_data,
                          [error |-> "'NoneType' object has no attribute 'get'"], execution_time, Num(80))
      [] outcome.kind = "raise" ->
            ReasoningStep(step_id, agent_name, input_data, [error |-> outcome.message],
                          execution_time, Num(80))
ExecuteReasoningStep(step_id, agent_name, input_data, outcome, execution_time) ==
    CASE outcome.kind = "mapping" ->
            ReasoningStep(step_id, agent_name, input_data, outcome.output, execution_time,
                          Get(outcome.output, "confidence", Num(80)))
      [] outcome.kind = "none" ->
            ReasoningStep(step_id, agent_name, input_data,
                          [error |-> "'NoneType' object has no attribute 'get'"], execution_time, Num(0))
      [] outcome.kind = "raise" ->
            ReasoningStep(step_id, agent_name, input_data, [error |-> outcome.message],
                          execution_time, Num(0))

ExecuteToolStep(tool_name, q, ctx, execution_time) ==
    ReasoningStep("tool_" \o tool_name, "ToolExecutor",
                  [tool |-> tool_name, query |-> q, context |-> ctx],
                  ToolLookup(tool_name), execution_time, Num(90))

Advisory ==
    [recommendation |-> "Based on current soil and weather conditions, consider applying phosphorus fertilizer before the expected rainfall.",
     reasoning |-> "Soil analysis shows low phosphorus levels, and upcoming rain will help nutrient absorption.",
     action_items |-> <<"Apply DAP fertilizer (50kg per acre)",
                        "Monitor weather for optimal application timing",
                        "Check for pest activity after rain">>,
     cost_estimate |-> 2500,
     expected_benefit |-> "Improved crop yield by 15-20%",
     timeline |-> "3-5 days for application"]

GenerateAdvisoryStep(q, data, ctx, execution_time) ==
    ReasoningStep("advisory_generation", "AdvisoryAgent",
                  [query |-> q, data |-> data, context |-> ctx],
                  Advisory, execution_time, Num(85))

Verification ==
    [verified |-> TRUE,
     confidence_score |-> Num(88),
     verification_notes |-> "Advisory aligns with standard agricultural practices for the region",
     risk_assessment |-> "Low risk - recommended actions are safe and beneficial",
     alternative_options |-> <<"Organic compost application as alternative to chemical fertilizer",
                               "Split application in smaller doses">>]

VerifyAdvisoryStep(advisory, ctx, execution_time) ==
    ReasoningStep("advisory_verification", "VerificationAgent",
                  [advisory |-> advisory, context |-> ctx],
                  Overlay(advisory, Verification), execution_time, Verification.confidence_score)

\* (current_avg * (total_queries - 1) + value) / total_queries (and not with the
\* old average weighted by total_queries)
OverweightedMean(current_avg, total_queries, value) ==
    Fraction(current_avg.n * total_queries + value * current_avg.d, current_avg.d * total_queries)
OnlineMean(current_avg, total_queries, value) ==
    Fraction(current_avg.n * (total_queries - 1) + value * current_avg.d, current_avg.d * total_queries)

\* _update_metrics (lines 256-271): the figures are read, changed and written
\* back with no await in between (and not computed from figures read before
\* the other runs' updates)
UpdateMetricsStale(metrics, execution_time, reasoning_steps) ==
    [total_queries |-> 1,
     avg_response_time |-> OnlineMean(Fraction(0, 1), 1, execution_time),
     reasoning_steps_avg |-> OnlineMean(Fraction(0, 1), 1, reasoning_steps)]
UpdateMetrics(metrics, execution_time, reasoning_steps) ==
    LET total_queries == metrics.total_queries + 1
    IN  [total_queries |-> total_queries,
         avg_response_time |-> OnlineMean(metrics.avg_response_time, total_queries, execution_time),
         reasoning_steps_avg |-> OnlineMean(metrics.reasoning_steps_avg, total_queries, reasoning_steps)]

\* reasoning_chain.append(step) (and not an insert at the front)
Prepended(chain, step) == <<step>> \o chain
Appended(chain, step) == Append(chain, step)

\* len(tool_results) > 1 (line 77) (and not >= 1)
NeedsSynthesisFromOne(results) == Cardinality(DOMAIN results) >= 1
NeedsSynthesis(results) == Cardinality(DOMAIN results) > 1

\* the questions callers send, one without a context and one with
Queries == {WheatPriceQuery, CricketNewsQuery}
ContextOf(q) == IF q = WheatPriceQuery THEN NoneValue ELSE [location |-> "Punjab"]

\* the dict returned at lines 109-116
AdvisoryResponse(chain, verification_step, total_time, level, tools) ==
    [reasoning_chain |-> chain,
     final_advisory |-> verification_step.output_data,
     execution_time |-> total_time,
     complexity_level |-> level,
     confidence_score |-> verification_step.confidence_score,
     tools_used |-> tools]
\* the dict returned by the handler at lines 118-123 (which makes up no
\* advisory)
FaultResponseWithAdvisory(message, chain, execution_time) ==
    [error |-> message, reasoning_chain |-> chain, execution_time |-> execution_time,
     final_advisory |-> EmptyDict]
FaultResponse(message, chain, execution_time) ==
    [error |-> message, reasoning_chain |-> chain, execution_time |-> execution_time]

\* the sums kept for reference: over every call that returned, and over
\* the calls that returned an advisory
NoneCompleted ==
    [calls |-> 0, execution_time |-> 0, chain_steps |-> 0,
     advised |-> 0, advised_time |-> 0, advised_steps |-> 0]
Completed(sums, result) ==
    LET advisory == ~Has(result, "error")
    IN  [calls |-> sums.calls + 1,
         execution_time |-> sums.execution_time + result.execution_time,
         chain_steps |-> sums.chain_steps + Len(result.reasoning_chain),
         advised |-> sums.advised + (IF advisory THEN 1 ELSE 0),
         advised_time |-> sums.advised_time + (IF advisory THEN result.execution_time ELSE 0),
         advised_steps |-> sums.advised_steps + (IF advisory THEN Len(result.reasoning_chain) ELSE 0)]

InitMetrics == [total_queries |-> 0, avg_response_time |-> Fraction(0, 1), reasoning_steps_avg |-> Fraction(0, 1)]

\* AgenticReasoningSystem.__init__, no query in progress
InitOrchestrator ==
    /\ performance_metrics = InitMetrics
    /\ queries_made = 0
    /\ completed = NoneCompleted
    /\ suspended = <<>>
    /\ stage_start = 0
    /\ pc = "idle"
    /\ query = EmptyText
    /\ context = NoneValue
    /\ start_time = 0
    /\ reasoning_chain = <<>>
    /\ required_tools = ListValue(<<>>)
    /\ complexity_level = "simple"
    /\ tool_index = 1
    /\ tool_results = EmptyDict
    /\ synthesized_data = EmptyDict
    /\ response = EmptyDict

\* process_complex_query is called (lines 41-53)
StartQuery(q, ctx) ==
    /\ pc \in {"idle", "returned"}
    /\ queries_made < MaxQueries
    /\ queries_made' = queries_made + 1
    /\ pc' = "analysis"
    /\ query' = q
    /\ context' = ctx
    /\ start_time' = now
    /\ stage_start' = now
    /\ reasoning_chain' = <<>>
    /\ required_tools' = ListValue(<<>>)
    /\ complexity_level' = "simple"
    /\ tool_index' = 1
    /\ tool_results' = EmptyDict
    /\ synthesized_data' = EmptyDict
    /\ response' = EmptyDict
    /\ UNCHANGED <<workflow_vars, agent_vars, suspended, completed, now, agent_binding, performance_metrics>>

\* Step 1 and Step 2 (lines 56-66)
QueryAnalysisStep(outcome, delay) ==
    LET analysis_step ==
            ExecuteReasoningStep("query_analysis", ClassName(agent_binding, "query_analysis"),
                                 [query |-> query, context |-> ContextOrEmpty(context)],
                                 outcome, now + delay - stage_start)
    IN  /\ pc = "analysis"
        /\ now' = now + delay
        /\ stage_start' = now + delay
        /\ reasoning_chain' = Appended(reasoning_chain, analysis_step)
        /\ required_tools' = Get(analysis_step.output_data, "required_tools", ListValue(<<>>))
        /\ complexity_level' = Get(analysis_step.output_data, "complexity_level", "simple")
        /\ pc' = "dispatch"
        /\ UNCHANGED <<workflow_vars, agent_vars, suspended, completed, agent_binding, performance_metrics, queries_made, query, context,
                       start_time, tool_index, tool_results, synthesized_data, response>>

\* the for loop has run through required_tools (an empty list runs no pass),
\* and not merely made its first pass
ToolsDispatchedAfterFirst == required_tools.list /\ (tool_index > 1 \/ required_tools.items = <<>>)
ToolsDispatched == required_tools.list /\ tool_index > Len(required_tools.items)

\* one pass of the loop of Step 3 (lines 71-74)
ToolStep ==
    /\ pc = "dispatch"
    /\ required_tools.list
    /\ tool_index <= Len(required_tools.items)
    /\ required_tools.items[tool_index] # UnhashableName
    /\ LET tool == required_tools.items[tool_index]
           tool_step == ExecuteToolStep(tool, query, context, 0)
       IN  /\ reasoning_chain' = Appended(reasoning_chain, tool_step)
           /\ tool_results' = Put(tool_results, tool, tool_step.output_data)
    /\ tool_index' = tool_index + 1
    /\ UNCHANGED <<workflow_vars, agent_vars, suspended, stage_start, completed, now, agent_binding, performance_metrics, queries_made, pc, query,
                   context, start_time, required_tools, complexity_level, synthesized_data, response>>

\* the fault text of the loop of Step 3, when it has one: on a required_tools
\* that cannot be iterated (line 71), on a name that cannot be looked up
\* (line 186)
LoopFault ==
    CASE ~required_tools.list -> <<"object is not iterable">>
      [] /\ required_tools.list
         /\ tool_index <= Len(required_tools.items)
         /\ required_tools.items[tool_index] = UnhashableName -> <<"unhashable type: 'list'">>
      [] OTHER -> <<>>

\* the loop faults and the handler of lines 118-123 answers
FaultReturn ==
    /\ pc = "dispatch"
    /\ LoopFault # <<>>
    /\ response' = FaultResponse(LoopFault[1], reasoning_chain, now - start_time)
    /\ completed' = Completed(completed, response')
    /\ pc' = "returned"
    /\ UNCHANGED <<workflow_vars, agent_vars, suspended, stage_start, now, agent_binding, performance_metrics, queries_made, query, context,
                   start_time, reasoning_chain, required_tools, complexity_level, tool_index,
                   tool_results, synthesized_data>>

\* Step 4 when more than one result was collected (lines 77-88)
DataSynthesisStep(outcome, delay) ==
    LET synthesis_step ==
            ExecuteReasoningStep("data_synthesis", ClassName(agent_binding, "data_synthesis"),
                                 [query |-> query, tool_results |-> tool_results,
                                  context |-> ContextOrEmpty(context)],
                                 outcome, now + delay - stage_start)
    IN  /\ pc = "dispatch"
        /\ ToolsDispatched
        /\ NeedsSynthesis(tool_results)
        /\ now' = now + delay
        /\ stage_start' = now + delay
        /\ reasoning_chain' = Appended(reasoning_chain, synthesis_step)
        /\ synthesized_data' = synthesis_step.output_data
        /\ pc' = "advisory"
        /\ UNCHANGED <<workflow_vars, agent_vars, suspended, completed, agent_binding, performance_metrics, queries_made, query, context,
                       start_time, required_tools, complexity_level, tool_index, tool_results, response>>

\* Step 5, reached past Step 4 or by its else branch (lines 89-96)
AdvisoryStep ==
    LET skipped == pc = "dispatch"
        data == IF skipped THEN tool_results ELSE synthesized_data
    IN  /\ \/ pc = "advisory"
           \/ pc = "dispatch" /\ ToolsDispatched /\ ~NeedsSynthesis(tool_results)
        /\ synthesized_data' = data
        /\ reasoning_chain' = Appended(reasoning_chain, GenerateAdvisoryStep(query, data, context, 0))
        /\ pc' = "verification"
        /\ UNCHANGED <<workflow_vars, agent_vars, suspended, stage_start, completed, now, agent_binding, performance_metrics, queries_made, query,
                       context, start_time, required_tools, complexity_level, tool_index,
                       tool_results, response>>

\* Step 6, the metrics update and the return (lines 98-116)
VerificationStep ==
    LET advisory_step == reasoning_chain[Len(reasoning_chain)]
        verification_step == VerifyAdvisoryStep(advisory_step.output_data, context, 0)
        chain == Appended(reasoning_chain, verification_step)
        total_time == now - start_time
    IN  /\ pc = "verification"
        /\ reasoning_chain' = chain
        /\ performance_metrics' = UpdateMetrics(performance_metrics, total_time, Len(chain))
        /\ response' = AdvisoryResponse(chain, verification_step, total_time, complexity_level,
                                        required_tools)
        /\ completed' = Completed(completed, response')
        /\ pc' = "returned"
        /\ UNCHANGED <<workflow_vars, agent_vars, suspended, stage_start, now, agent_binding, queries_made, query, context, start_time,
                       required_tools, complexity_level, tool_index, tool_results, synthesized_data>>

Next ==
    \/ \E q \in Queries : StartQuery(q, ContextOf(q))
    \/ \E delay \in ProcessDelays(agent_binding) :
          \E outcome \in ProcessOutcomes(agent_binding, "query_analysis") : QueryAnalysisStep(outcome, delay)
    \/ ToolStep
    \/ FaultReturn
    \/ \E delay \in ProcessDelays(agent_binding) :
          \E outcome \in ProcessOutcomes(agent_binding, "data_synthesis") : DataSynthesisStep(outcome, delay)
    \/ AdvisoryStep
    \/ VerificationStep

\* The locals of a run of process_complex_query: each call has its own
\* (lines 43-53, 56-66), the instance's fields are shared by all calls.
Frame ==
    [pc |-> pc, query |-> query, context |-> context, start_time |-> start_time,
     stage_start |-> stage_start, reasoning_chain |-> reasoning_chain,
     required_tools |-> required_tools, complexity_level |-> complexity_level,
     tool_index |-> tool_index, tool_results |-> tool_results]
\* a run is waiting on agent.process (line 130, reached from lines 57 and 93)
AtAwait ==
    \/ pc = "analysis"
    \/ pc = "dispatch" /\ ToolsDispatched /\ NeedsSynthesis(tool_results)
\* the chain of a run is the list made at line 53, a local of that run (and not
\* a list held by the instance, that the resumed run would find as the others
\* left it)
ChainOfInstance(frame) == reasoning_chain
ChainOf(frame) == frame.reasoning_chain
WithoutFrame(frames, i) == [j \in 1 .. (Len(frames) - 1) |-> IF j < i THEN frames[j] ELSE frames[j + 1]]

\* The run waiting on agent.process (line 130) gives up the event loop: the
\* loop is free for another call of process_complex_query or for a suspended
\* run whose wait is over.  Only an agent that has a process coroutine can
\* suspend its caller; no other await of the orchestrator reaches one.
Yield ==
    /\ agent_binding = Processors
    /\ AtAwait
    /\ suspended' = Append(suspended, Frame)
    /\ pc' = "idle"
    /\ query' = EmptyText
    /\ context' = NoneValue
    /\ start_time' = 0
    /\ stage_start' = 0
    /\ reasoning_chain' = <<>>
    /\ required_tools' = ListValue(<<>>)
    /\ complexity_level' = "simple"
    /\ tool_index' = 1
    /\ tool_results' = EmptyDict
    /\ synthesized_data' = EmptyDict
    /\ response' = EmptyDict
    /\ UNCHANGED <<workflow_vars, agent_vars, completed, now, agent_binding, performance_metrics, queries_made>>

\* the event loop, free, goes back to the suspended run i
Resume(i) ==
    /\ pc \in {"idle", "returned"}
    /\ i \in DOMAIN suspended
    /\ suspended' = WithoutFrame(suspended, i)
    /\ pc' = suspended[i].pc
    /\ query' = suspended[i].query
    /\ context' = suspended[i].context
    /\ start_time' = suspended[i].start_time
    /\ stage_start' = suspended[i].stage_start
    /\ reasoning_chain' = ChainOf(suspended[i])
    /\ required_tools' = suspended[i].required_tools
    /\ complexity_level' = suspended[i].complexity_level
    /\ tool_index' = suspended[i].tool_index
    /\ tool_results' = suspended[i].tool_results
    /\ synthesized_data' = EmptyDict
    /\ response' = EmptyDict
    /\ UNCHANGED <<workflow_vars, agent_vars, completed, now, agent_binding, performance_metrics, queries_made>>

\* what the awaited process coroutines give the interleaved runs: no tool,
\* one tool, two tools, a required_tools that is not a list, a fault
RunAnalysisOutcomes ==
    {ProcessReturned([required_tools |-> tools]) :
        tools \in {ListValue(<<>>), ListValue(<<"crop-price">>),
                   ListValue(<<"crop-price", "web-search">>), NotAList}}
    \cup {ProcessRaised("upstream unavailable")}
RunSynthesisOutcomes ==
    {ProcessReturned(m) : m \in SynthesisMappings} \cup {ProcessRaised("upstream unavailable")}

NextRuns ==
    \/ \E q \in Queries : StartQuery(q, ContextOf(q))
    \/ \E delay \in ProcessDelays(agent_binding), outcome \in RunAnalysisOutcomes :
          QueryAnalysisStep(outcome, delay)
    \/ ToolStep
    \/ FaultReturn
    \/ \E delay \in ProcessDelays(agent_binding), outcome \in RunSynthesisOutcomes :
          DataSynthesisStep(outcome, delay)
    \/ AdvisoryStep
    \/ VerificationStep
    \/ Yield
    \/ \E i \in 1 .. MaxQueries : Resume(i)

\* ----------------------------------------- WorkflowEngine (workflow_engine.py)

\* WorkflowStatus and StepStatus values
NOT_STARTED == "not_started"
IN_PROGRESS == "in_progress"
COMPLETED == "completed"
PENDING == "pending"

\* WorkflowStep.__init__ (lines 29-42); title, description, result_data, notes
\* and the two timestamps of a step take no part in what the engine decides
WorkflowStep(step_id, tools_required, estimated_time, prerequisites, optional) ==
    [step_id |-> step_id, tools_required |-> tools_required,
     estimated_time |-> estimated_time, prerequisites |-> prerequisites,
     optional |-> optional, status |-> PENDING]

\* AgriculturalWorkflow.__init__ (lines 48-64)
AgriculturalWorkflow(workflow_id, title, category, difficulty) ==
    [workflow_id |-> workflow_id, title |-> title, category |-> category,
     difficulty |-> difficulty, steps |-> <<>>, status |-> NOT_STARTED,
     user_id |-> NoneValue, progress_percentage |-> 0, estimated_total_time |-> 0]

\* the steps of the four pre-built workflows (lines 94-131, 142-181, 192-230,
\* 241-277)
CropSelectionSteps ==
    <<WorkflowStep("soil_analysis", <<"soil-health">>, 10, <<>>, FALSE),
      WorkflowStep("weather_check", <<"weather">>, 5, <<>>, FALSE),
      WorkflowStep("market_research", <<"crop-price", "mandi-price">>, 15, <<>>, FALSE),
      WorkflowStep("crop_recommendation", <<"search">>, 10,
                   <<"soil_analysis", "weather_check", "market_research">>, FALSE),
      WorkflowStep("financial_planning", <<>>, 15, <<"crop_recommendation">>, FALSE)>>
PestManagementSteps ==
    <<WorkflowStep("pest_identification", <<"pest-identifier">>, 10, <<>>, FALSE),
      WorkflowStep("weather_correlation", <<"weather">>, 5, <<"pest_identification">>, FALSE),
      WorkflowStep("treatment_options", <<"search">>, 15, <<"pest_identification">>, FALSE),
      WorkflowStep("cost_analysis", <<"mandi-price">>, 10, <<"treatment_options">>, FALSE),
      WorkflowStep("implementation_plan", <<>>, 20, <<"weather_correlation", "cost_analysis">>, FALSE)>>
IrrigationPlanningSteps ==
    <<WorkflowStep("soil_moisture_check", <<"soil-health">>, 10, <<>>, FALSE),
      WorkflowStep("weather_forecast", <<"weather">>, 5, <<>>, FALSE),
      WorkflowStep("crop_water_needs", <<"search">>, 15, <<"soil_moisture_check">>, FALSE),
      WorkflowStep("irrigation_schedule", <<>>, 15, <<"weather_forecast", "crop_water_needs">>, FALSE),
      WorkflowStep("water_conservation", <<>>, 10, <<"irrigation_schedule">>, TRUE)>>
HarvestTimingSteps ==
    <<WorkflowStep("crop_maturity_check", <<>>, 15, <<>>, FALSE),
      WorkflowStep("weather_window", <<"weather">>, 10, <<>>, FALSE),
      WorkflowStep("market_timing", <<"crop-price", "mandi-price">>, 20, <<>>, FALSE),
      WorkflowStep("logistics_planning", <<>>, 25, <<"crop_maturity_check", "weather_window">>, FALSE),
      WorkflowStep("quality_optimization", <<>>, 15, <<"logistics_planning">>, TRUE)>>

RECURSIVE SumOfTimes(_)
\* sum(step.estimated_time for step in workflow.steps)
SumOfTimes(steps) ==
    IF steps = <<>> THEN 0 ELSE steps[1].estimated_time + SumOfTimes(Tail(steps))

WithSteps(workflow, steps) ==
    [workflow EXCEPT !.steps = steps, !.estimated_total_time = SumOfTimes(steps)]

\* the keys of self.workflows, in the order of the dict of lines 280-285
WorkflowOrder == <<"crop_selection", "pest_management", "irrigation_planning", "harvest_timing">>
\* _initialize_workflows (lines 82-289)
InitializeWorkflows ==
    [w \in {WorkflowOrder[i] : i \in DOMAIN WorkflowOrder} |->
        CASE w = "crop_selection" ->
                WithSteps(AgriculturalWorkflow(w, "Smart Crop Selection Guide", "crop_selection", "beginner"),
                          CropSelectionSteps)
          [] w = "pest_management" ->
                WithSteps(AgriculturalWorkflow(w, "Integrated Pest Management", "pest_management", "intermediate"),
                          PestManagementSteps)
          [] w = "irrigation_planning" ->
                WithSteps(AgriculturalWorkflow(w, "Smart Irrigation Planning", "irrigation", "intermediate"),
                          IrrigationPlanningSteps)
          [] w = "harvest_timing" ->
                WithSteps(AgriculturalWorkflow(w, "Optimal Harvest Timing", "harvest_timing", "advanced"),
                          HarvestTimingSteps)]

\* _find_step (lines 456-458): the place of the first step with that id, 0 for None
FindStep(workflow, step_id) ==
    LET found == {i \in DOMAIN workflow.steps : workflow.steps[i].step_id = step_id}
    IN  IF found = {} THEN 0 ELSE CHOOSE i \in found : \A j \in found : i <= j
\* _is_step_completed (lines 464-467)
IsStepCompleted(workflow, step_id) ==
    /\ FindStep(workflow, step_id) # 0
    /\ workflow.steps[FindStep(workflow, step_id)].status = COMPLETED
\* _check_prerequisites (lines 460-462): all of them (and not the first alone)
CheckPrerequisitesFirstOnly(workflow, step) ==
    step.prerequisites = <<>> \/ IsStepCompleted(workflow, step.prerequisites[1])
CheckPrerequisites(workflow, step) ==
    \A p \in DOMAIN step.prerequisites : IsStepCompleted(workflow, step.prerequisites[p])
\* the prerequisites of lines 352-353 that are not completed, in their order
MissingPrerequisites(workflow, step) ==
    SelectSeq(step.prerequisites, LAMBDA p : ~IsStepCompleted(workflow, p))
\* _get_next_step (lines 469-481): the id of the first pending step whose
\* prerequisites are met, as Optional
GetNextStep(workflow) ==
    LET ready == {i \in DOMAIN workflow.steps :
                    /\ workflow.steps[i].status = PENDING
                    /\ CheckPrerequisites(workflow, workflow.steps[i])}
    IN  IF ready = {} THEN <<>>
        ELSE Some(workflow.steps[CHOOSE i \in ready : \A j \in ready : i <= j].step_id)
\* _update_workflow_progress (lines 483-492): the workflow is complete when
\* every step is, the optional ones too (and not when the required ones are)
UpdateWorkflowProgressRequiredOnly(workflow) ==
    LET completed_steps == Cardinality({i \in DOMAIN workflow.steps : workflow.steps[i].status = COMPLETED})
        total_steps == Len(workflow.steps)
    IN  [workflow EXCEPT !.progress_percentage = (completed_steps * 100) \div total_steps,
                         !.status = IF \A i \in DOMAIN workflow.steps :
                                          workflow.steps[i].optional \/ workflow.steps[i].status = COMPLETED
                                     THEN COMPLETED ELSE @]
UpdateWorkflowProgress(workflow) ==
    LET completed_steps == Cardinality({i \in DOMAIN workflow.steps : workflow.steps[i].status = COMPLETED})
        total_steps == Len(workflow.steps)
    IN  [workflow EXCEPT !.progress_percentage = (completed_steps * 100) \div total_steps,
                         !.status = IF completed_steps = total_steps THEN COMPLETED ELSE @]
\* _serialize_workflow (lines 494-517), without the texts
SerializeWorkflow(workflow) ==
    [workflow_id |-> workflow.workflow_id, category |-> workflow.category,
     difficulty |-> workflow.difficulty, status |-> workflow.status,
     progress_percentage |-> workflow.progress_percentage,
     estimated_total_time |-> workflow.estimated_total_time,
     steps |-> [i \in DOMAIN workflow.steps |->
                  [step_id |-> workflow.steps[i].step_id, status |-> workflow.steps[i].status]]]
\* f"{user_id}_{workflow_id}_{int(datetime.now().timestamp())}" (line 325)
InstanceKey(user_id, workflow_id, seconds) ==
    user_id \o "_" \o workflow_id \o "_" \o ToString(seconds)
\* the key under which a tool's result, or its fault, is put (lines 404-454)
ResultKey(tool, faulted) ==
    IF faulted THEN tool \o "_error"
    ELSE CASE tool = "soil-health" -> "soil_analysis"
           [] tool = "weather" -> "weather_forecast"
           [] tool = "crop-price" -> "crop_prices"
           [] tool = "mandi-price" -> "mandi_analysis"
           [] tool = "pest-identifier" -> "pest_analysis"
           [] tool = "search" -> "research_data"
\* the keys of the dict _execute_step_tools returns, when the tools in
\* `faulted` raise
StepResultKeys(step, faulted) ==
    {ResultKey(step.tools_required[i], step.tools_required[i] \in faulted) :
        i \in DOMAIN step.tools_required}

\* get_available_workflows (lines 552-564)
AvailableWorkflows ==
    [i \in DOMAIN WorkflowOrder |->
        LET workflow == workflows[WorkflowOrder[i]]
        IN  [workflow_id |-> workflow.workflow_id, title |-> workflow.title,
             category |-> workflow.category, difficulty |-> workflow.difficulty,
             estimated_time |-> workflow.estimated_total_time,
             step_count |-> Len(workflow.steps)]]

IdleStepCall == [active |-> FALSE, instance_id |-> "", workflow |-> 0, step |-> 0]
NoWorkflowResult == [call |-> "none"]

\* WorkflowEngine.__init__ (lines 72-80); the database starts empty
InitWorkflowEngine ==
    /\ workflows = InitializeWorkflows
    /\ workflow_objects = <<>>
    /\ user_workflow_instances = EmptyDict
    /\ db_workflow_instances = EmptyDict
    /\ step_calls = [c \in 1 .. MaxInflight |-> IdleStepCall]
    /\ workflow_result = NoWorkflowResult
    /\ step_calls_made = 0

\* start_workflow reads the template and writes only the new instance (lines
\* 299-322) (and does not mark the template as started)
TemplatesMarkedStarted(workflow_id) == [workflows EXCEPT ![workflow_id].status = IN_PROGRESS]
TemplatesAfterStart(workflow_id) == workflows

\* start_workflow (lines 291-336)
StartWorkflow(workflow_id, user_id) ==
    IF workflow_id \notin DOMAIN workflows
    THEN /\ workflow_result' = [call |-> "start_workflow", success |-> FALSE,
                                error |-> "Workflow '" \o workflow_id \o "' not found"]
         /\ UNCHANGED <<workflows, workflow_objects, user_workflow_instances,
                        db_workflow_instances, step_calls, step_calls_made>>
    ELSE LET template == workflows[workflow_id]
             copied == [i \in DOMAIN template.steps |->
                           WorkflowStep(template.steps[i].step_id, template.steps[i].tools_required,
                                        template.steps[i].estimated_time,
                                        template.steps[i].prerequisites, template.steps[i].optional)]
             workflow_instance ==
                 [AgriculturalWorkflow(workflow_id, template.title, template.category, template.difficulty)
                     EXCEPT !.steps = copied, !.user_id = user_id, !.status = IN_PROGRESS]
             instance_key == InstanceKey(user_id, workflow_id, now)
         IN  /\ Len(workflow_objects) < MaxStarts
             /\ workflow_objects' = Append(workflow_objects, workflow_instance)
             /\ user_workflow_instances' = Put(user_workflow_instances, instance_key, Len(workflow_objects) + 1)
             /\ db_workflow_instances' = Put(db_workflow_instances, instance_key, SerializeWorkflow(workflow_instance))
             /\ workflows' = TemplatesAfterStart(workflow_id)
             /\ workflow_result' = [call |-> "start_workflow", success |-> TRUE,
                                    instance_id |-> instance_key,
                                    workflow |-> SerializeWorkflow(workflow_instance),
                                    next_step |-> GetNextStep(workflow_instance)]
             /\ UNCHANGED <<step_calls, step_calls_made>>

\* what execute_workflow_step does once the tools of the step have answered
\* (lines 367-384)
StepCompleted(objects, w, s) ==
    [objects EXCEPT ![w] = UpdateWorkflowProgress([@ EXCEPT !.steps[s].status = COMPLETED])]
StepSuccess(workflow, result_keys) ==
    [call |-> "execute_workflow_step", success |-> TRUE, step_result |-> result_keys,
     workflow_progress |-> workflow.progress_percentage,
     next_step |-> GetNextStep(workflow), workflow_status |-> workflow.status]

\* execute_workflow_step, up to the first tool call it waits on (lines 338-365);
\* a step without tools waits on nothing before it is completed and saved
ExecuteWorkflowStep(c, instance_id, step_id) ==
    /\ ~step_calls[c].active
    /\ \A i \in 1 .. (c - 1) : step_calls[i].active
    /\ step_calls_made' = step_calls_made + 1
    /\ IF instance_id \notin DOMAIN user_workflow_instances
       THEN /\ workflow_result' = [call |-> "execute_workflow_step", success |-> FALSE,
                                   error |-> "Workflow instance not found"]
            /\ UNCHANGED <<workflow_objects, db_workflow_instances, step_calls>>
       ELSE LET w == user_workflow_instances[instance_id]
                workflow == workflow_objects[w]
                s == FindStep(workflow, step_id)
            IN  IF s = 0
                THEN /\ workflow_result' = [call |-> "execute_workflow_step", success |-> FALSE,
                                            error |-> "Step '" \o step_id \o "' not found"]
                     /\ UNCHANGED <<workflow_objects, db_workflow_instances, step_calls>>
                ELSE IF ~CheckPrerequisites(workflow, workflow.steps[s])
                THEN /\ workflow_result' = [call |-> "execute_workflow_step", success |-> FALSE,
                                            error |-> "Prerequisites not met",
                                            missing |-> MissingPrerequisites(workflow, workflow.steps[s])]
                     /\ UNCHANGED <<workflow_objects, db_workflow_instances, step_calls>>
                ELSE IF workflow.steps[s].tools_required = <<>>
                THEN /\ workflow_objects' = StepCompleted(workflow_objects, w, s)
                     /\ db_workflow_instances' =
                            Put(db_workflow_instances, instance_id, SerializeWorkflow(workflow_objects'[w]))
                     /\ workflow_result' = StepSuccess(workflow_objects'[w], {})
                     /\ UNCHANGED step_calls
                ELSE /\ workflow_objects' = [workflow_objects EXCEPT ![w].steps[s].status = IN_PROGRESS]
                     /\ step_calls' = [step_calls EXCEPT ![c] =
                                          [active |-> TRUE, instance_id |-> instance_id,
                                           workflow |-> w, step |-> s]]
                     /\ UNCHANGED <<db_workflow_instances, workflow_result>>
    /\ UNCHANGED <<workflows, user_workflow_instances>>

\* the tools of the step have answered, those in `faulted` with a fault, and
\* execute_workflow_step goes on to its return (lines 365-384)
StepToolsAnswered(c, faulted) ==
    /\ step_calls[c].active
    /\ LET w == step_calls[c].workflow
           s == step_calls[c].step
       IN  /\ workflow_objects' = StepCompleted(workflow_objects, w, s)
           /\ db_workflow_instances' =
                  Put(db_workflow_instances, step_calls[c].instance_id, SerializeWorkflow(workflow_objects'[w]))
           /\ workflow_result' = StepSuccess(workflow_objects'[w],
                                             StepResultKeys(workflow_objects[w].steps[s], faulted))
    /\ step_calls' = [step_calls EXCEPT ![c] = IdleStepCall]
    /\ UNCHANGED <<workflows, user_workflow_instances, step_calls_made>>

\* a caller asks for the templates
GetAvailableWorkflows ==
    /\ workflow_result' = [call |-> "get_available_workflows", workflows |-> AvailableWorkflows]
    /\ UNCHANGED <<workflows, workflow_objects, user_workflow_instances, db_workflow_instances,
                   step_calls, step_calls_made>>

\* the clock reaches the next second
ClockTick ==
    /\ now < MaxClock
    /\ now' = now + 1
    /\ UNCHANGED workflow_vars

UserIds == {"farmer"}
RequestedWorkflows == {"pest_management", "organic_farming"}
\* the instance ids and step ids callers may send: the known ones and one of
\* neither kind
RequestedInstances == (DOMAIN user_workflow_instances) \cup {"farmer_pest_management"}
RequestedSteps(instance_id) ==
    IF instance_id \in DOMAIN user_workflow_instances
    THEN LET workflow == workflow_objects[user_workflow_instances[instance_id]]
         IN  {workflow.steps[i].step_id : i \in DOMAIN workflow.steps} \cup {"field_survey"}
    ELSE {"pest_identification"}
ToolFaults == {{}, {"weather", "search"}}

\* the caller takes what the call handed back
WorkflowResultTaken ==
    /\ workflow_result # NoWorkflowResult
    /\ workflow_result' = NoWorkflowResult
    /\ UNCHANGED <<workflows, workflow_objects, user_workflow_instances, db_workflow_instances,
                   step_calls, step_calls_made>>

NextWorkflow ==
    \/ /\ workflow_result = NoWorkflowResult
       /\ \E workflow_id \in RequestedWorkflows, user_id \in UserIds : StartWorkflow(workflow_id, user_id)
       /\ UNCHANGED <<agent_vars, now, orchestrator_vars>>
    \/ /\ workflow_result = NoWorkflowResult
       /\ step_calls_made < MaxStepCalls
       /\ \E c \in 1 .. MaxInflight :
             \E instance_id \in RequestedInstances :
                \E step_id \in RequestedSteps(instance_id) : ExecuteWorkflowStep(c, instance_id, step_id)
       /\ UNCHANGED <<agent_vars, now, orchestrator_vars>>
    \/ /\ workflow_result = NoWorkflowResult
       /\ \E c \in 1 .. MaxInflight, faulted \in ToolFaults : StepToolsAnswered(c, faulted)
       /\ UNCHANGED <<agent_vars, now, orchestrator_vars>>
    \/ /\ workflow_result = NoWorkflowResult
       /\ GetAvailableWorkflows
       /\ UNCHANGED <<agent_vars, now, orchestrator_vars>>
    \/ WorkflowResultTaken /\ UNCHANGED <<agent_vars, now, orchestrator_vars>>
    \/ /\ workflow_result = NoWorkflowResult
       /\ ClockTick
       /\ UNCHANGED <<agent_vars, orchestrator_vars>>

\* one caller starts one instance of a template and executes, each time, the
\* step the last answer named as next_step
NextGuided ==
    \/ /\ workflow_objects = <<>>
       /\ \E workflow_id \in DOMAIN workflows, user_id \in UserIds : StartWorkflow(workflow_id, user_id)
       /\ UNCHANGED <<agent_vars, now, orchestrator_vars>>
    \/ /\ ~step_calls[1].active
       /\ Has(workflow_result, "next_step")
       /\ workflow_result.next_step # <<>>
       /\ \E instance_id \in DOMAIN user_workflow_instances :
             ExecuteWorkflowStep(1, instance_id, workflow_result.next_step[1])
       /\ UNCHANGED <<agent_vars, now, orchestrator_vars>>
    \/ /\ \E faulted \in ToolFaults : StepToolsAnswered(1, faulted)
       /\ UNCHANGED <<agent_vars, now, orchestrator_vars>>
    \/ /\ ClockTick
       /\ UNCHANGED <<agent_vars, orchestrator_vars>>

\* the same caller, who may also execute again a step that is COMPLETED
NextReplay ==
    \/ NextGuided
    \/ /\ workflow_objects # <<>>
       /\ ~step_calls[1].active
       /\ step_calls_made < Len(workflow_objects[1].steps) + MaxReplays
       /\ \E instance_id \in DOMAIN user_workflow_instances :
             \E s \in {i \in DOMAIN workflow_objects[1].steps : workflow_objects[1].steps[i].status = COMPLETED} :
                 ExecuteWorkflowStep(1, instance_id, workflow_objects[1].steps[s].step_id)
       /\ UNCHANGED <<agent_vars, now, orchestrator_vars>>

\* ------------------------------------------------------- specifications

\* the orchestrator, under every binding of its two agents
Init ==
    /\ agent = QueryAnalyzer
    /\ InitAgentFields
    /\ agent_binding \in Bindings
    /\ InitOrchestrator
    /\ InitWorkflowEngine
Spec == Init /\ [][Next]_vars

\* calls of process_complex_query taking turns on one event loop, the agents
\* having a process coroutine to wait on
InitRuns ==
    /\ Init
    /\ agent_binding = Processors
SpecRuns == InitRuns /\ [][NextRuns]_vars

\* one agent instance, of any class, and the execute calls made on it
InitAgent ==
    /\ agent \in AgentNames
    /\ InitAgentFields
    /\ agent_binding = Constructed
    /\ InitOrchestrator
    /\ InitWorkflowEngine
SpecAgent == InitAgent /\ [][NextAgent]_vars

\* _verify_advisory_step and the return of process_complex_query (lines
\* 101-116) as functions of the advisory handed to them: an advisory with any
\* of the generated fields and with fields of its own under the names the
\* verification writes
Restricted(d, keys) == [k \in (DOMAIN d) \cap keys |-> d[k]]
OwnVerdict ==
    [verified |-> FALSE,
     confidence_score |-> Num(85),
     verification_notes |-> "draft",
     risk_assessment |-> "High risk",
     alternative_options |-> <<>>]
AdvisoryInputs ==
    {Overlay(Restricted(Advisory, generated), Restricted(OwnVerdict, own)) :
        generated \in {{}, {"recommendation", "cost_estimate"}, DOMAIN Advisory},
        own \in SUBSET DOMAIN OwnVerdict}
InitVerification ==
    /\ agent = QueryAnalyzer
    /\ InitAgentFields
    /\ InitWorkflowEngine
    /\ agent_binding = Constructed
    /\ performance_metrics = InitMetrics
    /\ queries_made = 1
    /\ completed = NoneCompleted
    /\ suspended = <<>>
    /\ stage_start = 0
    /\ pc = "verification"
    /\ query \in Queries
    /\ context = ContextOf(query)
    /\ start_time = 0
    /\ \E advisory \in AdvisoryInputs :
          reasoning_chain = <<ReasoningStep("advisory_generation", "AdvisoryAgent",
                                            [query |-> query, data |-> EmptyDict, context |-> context],
                                            advisory, 0, Num(85))>>
    /\ required_tools = ListValue(<<>>)
    /\ complexity_level = "simple"
    /\ tool_index = 1
    /\ tool_results = EmptyDict
    /\ synthesized_data = EmptyDict
    /\ response = EmptyDict
SpecVerification == InitVerification /\ [][VerificationStep]_vars

\* _validate_synthesis called on a decoded object and the tool results of the
\* payload (data_synthesizer.py:130): what it returns is kept in returned.hook
SynthesisObjects == {d.fields : d \in {doc \in SynthesisDocs : doc.type = "object"}}
ToolResultSets == {ResultsOf(names) : names \in SUBSET ToolNames}
Validated(synthesis) == [kind |-> "validated", message |-> "", result |-> NoResult, synthesis |-> synthesis]
ValidateSynthesisCall(synthesis, results) ==
    /\ ~returned.present
    /\ returned' = [NothingReturned EXCEPT
                        !.present = TRUE,
                        !.input_data = [synthesis |-> synthesis, tool_results |-> results],
                        !.hook = Validated(ValidateSynthesis(synthesis, results))]
    /\ UNCHANGED <<workflow_vars, agent, execution_count, total_execution_time, success_rate, succeeded, calls, now,
                   orchestrator_vars>>
InitValidation == InitAgent /\ agent = DataSynthesizer
NextValidation ==
    \/ \E synthesis \in SynthesisObjects, results \in ToolResultSets :
          ValidateSynthesisCall(synthesis, results)
    \/ ResultTaken
SpecValidation == InitValidation /\ [][NextValidation]_vars

\* the same agent when every execute call is awaited before the next is made
NextSequential ==
    \/ /\ \A i \in 1 .. MaxInflight : ~calls[i].active
       /\ \E input_data \in InputsOf(agent) : ExecuteBegin(1, input_data)
    \/ \E c \in {i \in 1 .. MaxInflight : calls[i].active /\ ~returned.present} :
          \E run \in HookRuns(agent, calls[c].input_data), delay \in 0 .. MaxDelay :
              ExecuteReturn(c, run, delay)
    \/ ResultTaken
SpecSequential == InitAgent /\ [][NextSequential]_vars

\* the workflow engine and the calls made on it
InitWorkflow ==
    /\ Init
    /\ agent_binding = Constructed
SpecWorkflow == InitWorkflow /\ [][NextWorkflow]_vars
SpecGuided == InitWorkflow /\ [][NextGuided]_vars
SpecReplay == InitWorkflow /\ [][NextReplay]_vars

\* ------------------------------------------------------------ properties

StepIds(chain) == [i \in DOMAIN chain |-> chain[i].step_id]
IsToolStep(step) == step.agent_name = "ToolExecutor"
\* the place of a step's stage in the pipeline
StageOf(step) ==
    CASE step.step_id = "query_analysis" -> 1
      [] IsToolStep(step) -> 2
      [] step.step_id = "data_synthesis" -> 3
      [] step.step_id = "advisory_generation" -> 4
      [] step.step_id = "advisory_verification" -> 5
      [] OTHER -> 0
ReturnedWithoutFault == pc = "returned" /\ ~Has(response, "error")
ReturnedWithFault == pc = "returned" /\ Has(response, "error")
RequiredToolsOf(chain) == Get(chain[1].output_data, "required_tools", ListValue(<<>>)).items
StageOrderOf(tools, results) ==
    <<"query_analysis">>
    \o [i \in 1 .. Len(tools) |-> "tool_" \o tools[i]]
    \o (IF Cardinality(DOMAIN results) > 1 THEN <<"data_synthesis">> ELSE <<>>)
    \o <<"advisory_generation", "advisory_verification">>

\* C1: a run that returns without a top-level fault has the chain
\* query_analysis, one tool_<name> per entry of the analysis step's
\* required_tools in list order, data_synthesis exactly when more than one tool
\* result was collected, advisory_generation, advisory_verification; and at
\* every point of a run the steps recorded so far are in stage order, only the
\* tool stage recording more than one step.
C1_StageOrder ==
    /\ \A i, j \in DOMAIN reasoning_chain :
          i < j =>
            /\ StageOf(reasoning_chain[i]) > 0
            /\ StageOf(reasoning_chain[i]) <= StageOf(reasoning_chain[j])
            /\ StageOf(reasoning_chain[i]) = StageOf(reasoning_chain[j]) => IsToolStep(reasoning_chain[i])
    /\ ReturnedWithoutFault =>
          StepIds(response.reasoning_chain)
            = StageOrderOf(RequiredToolsOf(response.reasoning_chain), tool_results)
\* a run that dispatched two tools, synthesised and returned
C1_FullPipelineReturned ==
    /\ ReturnedWithoutFault
    /\ Len(response.reasoning_chain) = 6
    /\ response.reasoning_chain[4].step_id = "data_synthesis"

OtherNeedsFlags ==
    {"needs_web_search", "needs_soil_health", "needs_weather", "needs_pest_id", "needs_mandi_tracker"}
NeedsOnlyCropPrice(output) ==
    /\ Has(output, "needs_crop_price") /\ output["needs_crop_price"] = TRUE
    /\ \A f \in OtherNeedsFlags : Has(output, f) /\ output[f] = FALSE
\* C2: for "What is wheat price in Punjab?" with an analysis whose only true
\* needs_* flag is needs_crop_price, the returned chain holds exactly one tool
\* step, tool_crop-price, no data_synthesis step, and the advisory step's data
\* is the map from crop-price to the crop-price output.
C2_WheatPriceScenario ==
    (/\ pc = "returned"
     /\ query = WheatPriceQuery
     /\ NeedsOnlyCropPrice(response.reasoning_chain[1].output_data))
    => LET chain == response.reasoning_chain
           tool_steps == SelectSeq(chain, IsToolStep)
       IN  /\ ~Has(response, "error")
           /\ StepIds(tool_steps) = <<"tool_crop-price">>
           /\ \A i \in DOMAIN chain : chain[i].step_id # "data_synthesis"
           /\ \E i \in DOMAIN chain :
                 /\ chain[i].step_id = "advisory_generation"
                 /\ chain[i].input_data.data
                      = [t \in {"crop-price"} |->
                            [wheat_price |-> 2500, rice_price |-> 3200, market_trend |-> "stable",
                             best_market |-> "Ludhiana Mandi"]]

\* every step of a run is recorded at the end of the chain, behind the steps
\* recorded before it; a new run starts from the empty chain
ChainGrowsAtEnd ==
    \/ reasoning_chain' = reasoning_chain
    \/ pc' = "analysis" /\ reasoning_chain' = <<>>
    \/ /\ Len(reasoning_chain') = Len(reasoning_chain) + 1
       /\ SubSeq(reasoning_chain', 1, Len(reasoning_chain)) = reasoning_chain
C4_SynthesisGating ==
    ReturnedWithoutFault =>
        LET chain == response.reasoning_chain
            synthesis == {i \in DOMAIN chain : chain[i].step_id = "data_synthesis"}
            collected == Cardinality(DOMAIN tool_results)
        IN  /\ collected = 1 =>
                /\ synthesis = {}
                /\ \E i \in DOMAIN chain :
                      /\ chain[i].step_id = "advisory_generation"
                      /\ chain[i].input_data.data = tool_results
                /\ \A t \in DOMAIN tool_results :
                      \E i \in DOMAIN chain :
                          /\ IsToolStep(chain[i])
                          /\ chain[i].input_data.tool = t
                          /\ chain[i].output_data = tool_results[t]
            /\ collected >= 2 =>
                /\ Cardinality(synthesis) = 1
                /\ \A i \in synthesis :
                      /\ chain[i + 1].step_id = "advisory_generation"
                      /\ \A j \in DOMAIN chain : IsToolStep(chain[j]) => j < i
\* a run that collected one tool result and returned
C4_OneResultReturned ==
    /\ ReturnedWithoutFault
    /\ Cardinality(DOMAIN tool_results) = 1
    /\ Len(response.reasoning_chain) = 4

RegisteredTools == {"crop-price", "weather", "soil-health", "pest-identifier"}
IsUnregisteredToolStep(step) == IsToolStep(step) /\ step.input_data.tool \notin RegisteredTools
\* C5: a tool step for a name outside the dispatcher's table has output
\* {'status': 'tool_not_found'}, and a run that dispatched such a name returns
\* without the top-level fault, its chain ending with the advisory and the
\* verification step.
C5_UnknownToolNotFound ==
    /\ \A i \in DOMAIN reasoning_chain :
          IsUnregisteredToolStep(reasoning_chain[i])
            => reasoning_chain[i].output_data = [status |-> "tool_not_found"]
    /\ (pc = "returned"
        /\ \E i \in DOMAIN response.reasoning_chain : IsUnregisteredToolStep(response.reasoning_chain[i]))
       => LET chain == response.reasoning_chain
          IN  /\ ~Has(response, "error")
              /\ chain[Len(chain) - 1].step_id = "advisory_generation"
              /\ chain[Len(chain)].step_id = "advisory_verification"
\* a run that dispatched web-search, which the table does not hold, and returned
C5_UnknownToolDispatched ==
    /\ pc = "returned"
    /\ \E i \in DOMAIN response.reasoning_chain : response.reasoning_chain[i].step_id = "tool_web-search"

\* C6: execute hands back a result whatever the hook did; when the hook raised,
\* the result is success=false, data {}, confidence 0.0, no reasoning steps,
\* error the fault's message, metadata the duration and the agent name, and
\* total_execution_time has grown by the duration.
C6_ExecuteNeverRaises ==
    returned.present =>
        /\ ~returned.raised
        /\ returned.hook.kind = "raise" =>
              /\ returned.result
                   = [success |-> FALSE, data |-> <<>>, confidence |-> Num(0), reasoning_steps |-> <<>>,
                      error |-> <<returned.hook.message>>,
                      metadata |-> [duration |-> returned.duration, agent |-> agent]]
              /\ total_execution_time = returned.total_before + returned.duration
\* an execute call whose hook raised a fault with no message after a tick
C6_HookRaised ==
    /\ returned.present
    /\ returned.hook.kind = "raise"
    /\ returned.hook.message = ""
    /\ returned.duration > 0

\* C7: a result with success=false, from execute's fault path or from the
\* emergency fallback of either agent, carries a non-empty error string.
C7_FailureCarriesError ==
    (/\ returned.present
     /\ ~returned.raised
     /\ ~returned.result.success
     /\ (returned.hook.kind # "result" \/ agent \in {QueryAnalyzer, DataSynthesizer}))
    => /\ Len(returned.result.error) = 1
       /\ returned.result.error[1] # ""

InZeroToOne(c) == c.kind = "num" /\ 0 <= c.v /\ c.v <= 100
\* C8: every confidence is in [0.0, 1.0]: of the results of the two agents and
\* of the reasoning steps in them, of every step of the chain, and the
\* confidence_score process_complex_query returns.
C8_ConfidenceInUnitInterval ==
    /\ (returned.present /\ ~returned.raised /\ agent \in {QueryAnalyzer, DataSynthesizer})
       => /\ InZeroToOne(returned.result.confidence)
          /\ \A i \in DOMAIN returned.result.reasoning_steps :
                InZeroToOne(returned.result.reasoning_steps[i].confidence)
    /\ \A i \in DOMAIN reasoning_chain : InZeroToOne(reasoning_chain[i].confidence_score)
    /\ (pc = "returned" /\ Has(response, "confidence_score")) => InZeroToOne(response.confidence_score)

FixedToolOrder ==
    <<"crop-price", "web-search", "soil-health", "weather-predictor", "pest-identifier", "mandi-tracker">>
FlagOfTool(tool) ==
    CASE tool = "crop-price" -> "needs_crop_price"
      [] tool = "web-search" -> "needs_web_search"
      [] tool = "soil-health" -> "needs_soil_health"
      [] tool = "weather-predictor" -> "needs_weather"
      [] tool = "pest-identifier" -> "needs_pest_id"
      [] tool = "mandi-tracker" -> "needs_mandi_tracker"
\* the Query Analyzer has returned the analysis it parsed from the reply
ParsedAnalysisReturned ==
    /\ returned.present
    /\ agent = QueryAnalyzer
    /\ returned.reply.kind = "text"
    /\ returned.result.success
    /\ ~Has(returned.result.metadata, "fallback_used")
UndecodableShapes == {
    <<Prose>>,
    <<Prose, LineBreak, JsonDocument>>,
    <<FenceJson, Prose, JsonDocument, Fence>>,
    <<JsonDocument, LineBreak, Fence, Prose, Fence>> }
\* C10: on reply text that is not valid JSON the Query Analyzer hands back
\* success=True, confidence 0.5 and complexity_level "simple", and execute
\* raises nothing.
C10_FallbackOnBadJson ==
    (/\ returned.present
     /\ agent = QueryAnalyzer
     /\ returned.reply.kind = "text"
     /\ returned.reply.tokens \in UndecodableShapes)
    => /\ ~returned.raised
       /\ returned.hook.kind = "result"
       /\ returned.result.success
       /\ returned.result.confidence = Num(50)
       /\ returned.result.data["complexity_level"] = "simple"
\* the analyzer has answered a reply with prose inside the fence
C10_FallbackTaken ==
    /\ returned.present
    /\ agent = QueryAnalyzer
    /\ returned.reply.tokens = <<FenceJson, Prose, JsonDocument, Fence>>
    /\ Has(returned.result.metadata, "fallback_used")

\* C11: whenever the collaborator hands the Query Analyzer text without
\* raising, the result has success=true, with confidence 0.5 when the text does
\* not decode and the analysis's own confidence field when it does, whatever
\* JSON value the text holds.
C11_SuccessUnlessFault ==
    (/\ returned.present
     /\ agent = QueryAnalyzer
     /\ returned.reply.kind = "text")
    => /\ returned.result.success
       /\ IF returned.reply.tokens \in UndecodableShapes
          THEN returned.result.confidence = Num(50)
          ELSE /\ Has(returned.result.data, "confidence")
               /\ returned.result.confidence = returned.result.data["confidence"]

\* the messages that hold an agricultural keyword once case-folded
AgriculturalMessages == {WheatPriceQuery, MandiQuery}
\* C12: when the collaborator's call raises, the Query Analyzer's result has
\* success=False, confidence 0.3 and data.is_agricultural true exactly when the
\* case-folded message holds an agricultural keyword.
C12_EmergencyOnFault ==
    (/\ returned.present
     /\ agent = QueryAnalyzer
     /\ returned.reply.kind = "raise")
    => /\ ~returned.raised
       /\ ~returned.result.success
       /\ returned.result.confidence = Num(30)
       /\ returned.result.data["is_agricultural"]
            = (Get(returned.input_data, "user_message", <<>>) \in AgriculturalMessages)
\* the call raised on a message whose only keyword is in capitals
C12_FaultOnCapitals ==
    /\ returned.present
    /\ agent = QueryAnalyzer
    /\ returned.reply.kind = "raise"
    /\ returned.reply.message = "Connection refused"
    /\ returned.input_data = [user_message |-> MandiQuery]

\* the mean of the values whose sum is total, as a fraction in lowest terms
MeanOf(total, count) == Fraction(total, count)
C14_NoUpdateLost ==
    LET in_flight == Len(suspended) + (IF pc \in {"idle", "returned"} THEN 0 ELSE 1)
        faulted == completed.calls - completed.advised
    IN  /\ queries_made = performance_metrics.total_queries + in_flight + faulted
        /\ (in_flight = 0 /\ faulted = 0 /\ queries_made >= 1) =>
              /\ performance_metrics.total_queries = queries_made
              /\ performance_metrics.avg_response_time = MeanOf(completed.advised_time, queries_made)
              /\ performance_metrics.reasoning_steps_avg = MeanOf(completed.advised_steps, queries_made)
\* two runs that overlapped have both returned an advisory: their execution
\* times add up to more than the time that has passed
C14_OverlappingRunsReturned ==
    /\ pc = "returned"
    /\ suspended = <<>>
    /\ completed.advised = 2
    /\ queries_made = 2
    /\ completed.advised_time > now


\* C15: when execute calls on one agent overlap, success_rate stays between 0
\* and 1 at every point, and once every call has returned it is the number of
\* calls that succeeded over execution_count.
C15_RateOfSucceeded ==
    /\ 0 <= success_rate.n /\ success_rate.n <= success_rate.d
    /\ ((\A c \in DOMAIN calls : ~calls[c].active) /\ execution_count >= 1) =>
          success_rate = Fraction(succeeded, execution_count)


IsAgentStep(step) == step.step_id \in {"query_analysis", "data_synthesis"}
\* C16: a fault inside an agent stage does not end the run.  The stage's step
\* is in the chain with an 'error' key in its output_data and confidence 0.0,
\* the run goes on to the next stage, and what it returns has a final_advisory
\* and no top-level 'error', the faulted step being in the returned chain with
\* later steps after it.
C16_AgentFaultAbsorbed ==
    \A i \in DOMAIN reasoning_chain :
        (IsAgentStep(reasoning_chain[i]) /\ Has(reasoning_chain[i].output_data, "error")) =>
            /\ reasoning_chain[i].confidence_score = Num(0)
            /\ pc = "returned" =>
                  /\ ~Has(response, "error")
                  /\ Has(response, "final_advisory")
                  /\ i < Len(response.reasoning_chain)
                  /\ response.reasoning_chain[i] = reasoning_chain[i]
                  /\ response.reasoning_chain[Len(response.reasoning_chain)].step_id = "advisory_verification"
\* a run whose data synthesis faulted, after two tools, has returned
C16_SynthesisFaultReturned ==
    /\ pc = "returned"
    /\ \E i \in DOMAIN reasoning_chain :
          /\ reasoning_chain[i].step_id = "data_synthesis"
          /\ Has(reasoning_chain[i].output_data, "error")
          /\ reasoning_chain[i].input_data.query = query


AdvisoryKeys ==
    {"reasoning_chain", "final_advisory", "execution_time", "complexity_level",
     "confidence_score", "tools_used"}
FaultKeys == {"error", "reasoning_chain", "execution_time"}
\* C17: process_complex_query never raises and returns one of two shapes.
\* A fault of the tool loop is answered by the handler; what a run returns has
\* either exactly the keys of an advisory (final_advisory the output of the
\* verification step that ends the chain, no 'error'), or exactly 'error',
\* 'execution_time' and 'reasoning_chain', the chain being the steps appended
\* before the fault: the analysis step and one step per tool before the
\* faulting one, with no final_advisory.
C17_OneOfTwoShapes ==
    /\ (pc = "dispatch" /\ LoopFault # <<>>) => ENABLED FaultReturn
    /\ pc # "returned" => response = EmptyDict
    /\ pc = "returned" =>
          /\ response.reasoning_chain = reasoning_chain
          /\ \/ /\ DOMAIN response = AdvisoryKeys
                /\ LoopFault = <<>>
                /\ reasoning_chain[Len(reasoning_chain)].step_id = "advisory_verification"
                /\ response.final_advisory = reasoning_chain[Len(reasoning_chain)].output_data
             \/ /\ DOMAIN response = FaultKeys
                /\ response.error = LoopFault[1]
                /\ StepIds(response.reasoning_chain)
                      = <<"query_analysis">>
                        \o [i \in 1 .. (tool_index - 1) |-> "tool_" \o required_tools.items[i]]
\* a run has returned the fault shape after one tool step
C17_FaultAfterToolStep ==
    /\ pc = "returned"
    /\ Has(response, "error")
    /\ Len(response.reasoning_chain) = 2
    /\ IsToolStep(response.reasoning_chain[2])


\* the steps of a chain were made for the query q, each stage after the ones
\* before it, the verification step being made from the advisory step before it
OwnChain(chain, q) ==
    \A i \in DOMAIN chain :
        /\ StageOf(chain[i]) > 0
        /\ i > 1 => StageOf(chain[i - 1]) <= StageOf(chain[i])
        /\ IF chain[i].step_id = "advisory_verification"
           THEN i > 1 /\ chain[i].input_data.advisory = chain[i - 1].output_data
           ELSE chain[i].input_data.query = q
\* C18: runs that take turns share nothing but the aggregate figures.  At
\* every point the chain of the run that has the event loop and the chain of
\* every suspended run hold only steps made for that run's query, in that
\* run's stage order, starting with its analysis step; and the chain a run
\* returns is its own.
C18_ChainOwnedByRun ==
    /\ OwnChain(reasoning_chain, query)
    /\ \A i \in DOMAIN suspended :
          /\ OwnChain(suspended[i].reasoning_chain, suspended[i].query)
          /\ suspended[i].pc = "dispatch" =>
                /\ Len(suspended[i].reasoning_chain) >= 1
                /\ suspended[i].reasoning_chain[1].step_id = "query_analysis"
    /\ pc \notin {"idle", "analysis"} =>
          /\ Len(reasoning_chain) >= 1
          /\ reasoning_chain[1].step_id = "query_analysis"
    /\ pc = "returned" => response.reasoning_chain = reasoning_chain
\* a run has returned its advisory while a run for another query, with steps
\* in its chain, is suspended
C18_ReturnedBesideSuspended ==
    /\ pc = "returned"
    /\ Has(response, "final_advisory")
    /\ \E i \in DOMAIN suspended :
          /\ suspended[i].query # query
          /\ suspended[i].start_time <= start_time
          /\ Len(suspended[i].reasoning_chain) >= 2


\* C19: the workflow templates are fixed.  After any sequence of
\* start_workflow and execute_workflow_step calls the engine has its four
\* templates, crop_selection, pest_management, irrigation_planning and
\* harvest_timing, every one as _initialize_workflows made it: its status
\* NOT_STARTED, each of its steps PENDING; and what get_available_workflows
\* returns lists the four.
C19_TemplatesFixed ==
    /\ DOMAIN workflows = {"crop_selection", "pest_management", "irrigation_planning", "harvest_timing"}
    /\ \A w \in DOMAIN workflows :
          /\ workflows[w].status = NOT_STARTED
          /\ \A i \in DOMAIN workflows[w].steps : workflows[w].steps[i].status = PENDING
    /\ workflows = InitializeWorkflows
    /\ workflow_result.call = "get_available_workflows" =>
          /\ Len(workflow_result.workflows) >= 4
          /\ {workflow_result.workflows[i].workflow_id : i \in DOMAIN workflow_result.workflows}
                = DOMAIN workflows
          /\ \A i \in DOMAIN workflow_result.workflows : workflow_result.workflows[i].step_count = 5
\* the templates are asked for after an instance of a workflow was started and
\* a step of it completed
C19_AskedAfterStepCompleted ==
    /\ workflow_result.call = "get_available_workflows"
    /\ \E w \in DOMAIN workflow_objects :
          /\ workflow_objects[w].status = IN_PROGRESS
          /\ \E i \in DOMAIN workflow_objects[w].steps : workflow_objects[w].steps[i].status = COMPLETED


\* C20: the Data Synthesizer hands back success=false only when the
\* collaborator's call raised, then with confidence 0.4; for text that does not
\* decode it hands back success=true with confidence 0.6; for text that
\* decodes to a JSON object it hands back success=true with the validated
\* synthesis as data and its confidence_score as confidence.
C20_SynthesisSuccessUnlessFault ==
    (returned.present /\ agent = DataSynthesizer) =>
        /\ ~returned.result.success => returned.reply.kind = "raise"
        /\ returned.reply.kind = "raise" =>
              ~returned.result.success /\ returned.result.confidence = Num(40)
        /\ (returned.reply.kind = "text" /\ returned.reply.tokens \in UndecodableShapes) =>
              returned.result.success /\ returned.result.confidence = Num(60)
        /\ (/\ returned.reply.kind = "text"
            /\ returned.reply.tokens \notin UndecodableShapes
            /\ returned.reply.doc.type = "object") =>
              /\ returned.result.success
              /\ Has(returned.result.data, "confidence_score")
              /\ returned.result.confidence = returned.result.data["confidence_score"]


NoCallActive == \A c \in DOMAIN calls : ~calls[c].active
\* C21: when the execute calls on one agent do not overlap, execution_count
\* goes up by one with every call made and by nothing else,
\* total_execution_time never goes down, and after every call success_rate is
\* the number of calls that handed back success=true over execution_count, a
\* failed result of the hook and a fault of the hook both counting as failures.
C21_SequentialCounters ==
    /\ [](/\ (NoCallActive /\ execution_count >= 1) =>
               success_rate = Fraction(succeeded, execution_count)
          /\ returned.present =>
               /\ ~returned.raised
               /\ succeeded <= execution_count
               /\ (returned.hook.kind # "result" => ~returned.result.success))
    /\ [][/\ total_execution_time' >= total_execution_time
          /\ execution_count' = execution_count + (IF NoCallActive /\ ~NoCallActive' THEN 1 ELSE 0)]_vars
\* two calls made one after the other have returned, one with success=true and
\* one after a fault of the hook
C21_SuccessThenFault ==
    /\ returned.present
    /\ NoCallActive
    /\ execution_count = 2
    /\ succeeded = 1
    /\ returned.hook.kind = "raise"


\* C22: the verification stage lays the verification fields over the
\* advisory.  final_advisory has every key of the advisory step's output and
\* every verification key; a key of both has the verification's value, a key
\* of the advisory alone keeps its value; and the confidence_score that
\* process_complex_query returns is the verification step's, which is
\* final_advisory['confidence_score'].
C22_VerificationWins ==
    pc = "returned" =>
        LET advisory == reasoning_chain[Len(reasoning_chain) - 1].output_data
            verification_step == reasoning_chain[Len(reasoning_chain)]
            final_advisory == response.final_advisory
        IN  /\ DOMAIN final_advisory = (DOMAIN advisory) \cup (DOMAIN Verification)
            /\ \A k \in DOMAIN Verification : final_advisory[k] = Verification[k]
            /\ \A k \in (DOMAIN advisory) \ (DOMAIN Verification) : final_advisory[k] = advisory[k]
            /\ final_advisory = verification_step.output_data
            /\ response.confidence_score = verification_step.confidence_score
            /\ response.confidence_score = final_advisory["confidence_score"]
            /\ response.confidence_score = Num(88)
\* an advisory that had a confidence_score and a verified field of its own went
\* through the verification
C22_ConflictingKeysVerified ==
    /\ pc = "returned"
    /\ LET advisory == reasoning_chain[Len(reasoning_chain) - 1].output_data
       IN  /\ Has(advisory, "confidence_score")
           /\ advisory["confidence_score"] = Num(85)
           /\ Has(advisory, "verified")
           /\ Has(advisory, "recommendation")


\* C23: when the synthesis handed to the validation has no
\* data_quality_assessment, the one it adds has completeness
\* min(tool_count/5, 1.0), reliability 0.8 and timeliness 0.9, so completeness
\* lies in [0,1] for every number of tool results.  (Hundredths.)
C23_CompletenessClamped ==
    (returned.present /\ returned.hook.kind = "validated"
        /\ ~Has(returned.input_data.synthesis, "data_quality_assessment")) =>
        LET added == returned.hook.synthesis["data_quality_assessment"]
            tool_count == Cardinality(DOMAIN returned.input_data.tool_results)
        IN  /\ added.completeness = Min((tool_count * 100) \div 5, 100)
            /\ 0 <= added.completeness /\ added.completeness <= 100
            /\ added.reliability = 80
            /\ added.timeliness = 90


\* C24: in every AgentResult Query Analyzer returns, on the parsed path and on
\* both fallback paths, data.expected_tools_sequence agrees with the needs_*
\* flags of the same data: a tool is in the sequence iff its flag is truthy.
C24_SequenceAgreesWithFlags ==
    (returned.present /\ agent = QueryAnalyzer /\ ~returned.raised) =>
        LET data == returned.result.data
            sequence == Get(data, "expected_tools_sequence", <<>>)
        IN  \A i \in DOMAIN AnalyzerTools :
                (\E j \in DOMAIN sequence : sequence[j] = AnalyzerTools[i])
                    <=> Truthy(Get(data, NeedsFlags[i], FALSE))


\* C25: every tool name Query Analyzer can put in expected_tools_sequence is a
\* name the orchestrator's dispatcher recognises: a tool step dispatched for
\* such a name never has output {'status': 'tool_not_found'}.
C25_AnalyzerNamesDispatched ==
    \A i \in DOMAIN reasoning_chain :
        (IsToolStep(reasoning_chain[i]) /\ reasoning_chain[i].input_data.tool \in AnalyzerToolSet)
            => /\ reasoning_chain[i].output_data # ToolNotFound
               /\ reasoning_chain[i].input_data.tool \in DOMAIN ToolTable


Unmet(objects, w, s) ==
    {p \in {objects[w].steps[s].prerequisites[i] : i \in DOMAIN objects[w].steps[s].prerequisites} :
        ~\E t \in DOMAIN objects[w].steps :
            objects[w].steps[t].step_id = p /\ objects[w].steps[t].status = COMPLETED}
\* C27: in any interleaving of execute_workflow_step calls, a step is moved to
\* IN_PROGRESS, or completed by a call that began on it, only if all of its
\* prerequisites were COMPLETED when the call tested them, which is the moment
\* it is marked IN_PROGRESS; a call whose prerequisites are unmet returns
\* success=false with the missing prerequisites and changes no step status.
C27_PrerequisiteOrdering ==
    [][/\ \A w \in DOMAIN workflow_objects, s \in 1 .. 5 :
             LET before == workflow_objects[w].steps[s].status
                 after == workflow_objects'[w].steps[s].status
             IN  /\ (after = IN_PROGRESS /\ before # IN_PROGRESS) => Unmet(workflow_objects, w, s) = {}
                 /\ (after = COMPLETED /\ before # COMPLETED) =>
                        \/ Unmet(workflow_objects, w, s) = {}
                        \/ \E c \in 1 .. MaxInflight :
                              /\ step_calls[c].active /\ ~step_calls'[c].active
                              /\ step_calls[c].workflow = w /\ step_calls[c].step = s
                 /\ after \in {before, IN_PROGRESS, COMPLETED}
       /\ \A c \in 1 .. MaxInflight :
             (step_calls'[c].active /\ ~step_calls[c].active) =>
                 /\ Unmet(workflow_objects, step_calls'[c].workflow, step_calls'[c].step) = {}
                 /\ Unmet(workflow_objects', step_calls'[c].workflow, step_calls'[c].step) = {}
                 /\ workflow_objects'[step_calls'[c].workflow].steps[step_calls'[c].step].status = IN_PROGRESS
       /\ (workflow_result'.call = "execute_workflow_step" /\ workflow_result # workflow_result'
              /\ ~workflow_result'.success) =>
             /\ workflow_objects' = workflow_objects
             /\ step_calls' = step_calls
             /\ db_workflow_instances' = db_workflow_instances
       /\ (workflow_result'.call = "execute_workflow_step" /\ workflow_result # workflow_result'
              /\ workflow_result'.success) =>
             \E w \in DOMAIN workflow_objects, s \in 1 .. 5 :
                 /\ workflow_objects'[w].steps[s].status = COMPLETED
                 /\ \/ Unmet(workflow_objects, w, s) = {}
                    \/ \E c \in 1 .. MaxInflight : step_calls[c].active /\ ~step_calls'[c].active
       /\ (Has(workflow_result', "missing") /\ workflow_result' # workflow_result) =>
             /\ ~workflow_result'.success
             /\ workflow_result'.error = "Prerequisites not met"
             /\ \E w \in DOMAIN workflow_objects, s \in 1 .. 5 :
                   /\ Unmet(workflow_objects, w, s) # {}
                   /\ {workflow_result'.missing[i] : i \in DOMAIN workflow_result'.missing}
                         = Unmet(workflow_objects, w, s)
    ]_vars
\* a call on a step that has prerequisites has completed it and returned
C27_DependentStepCompleted ==
    \E w \in DOMAIN workflow_objects, s \in 1 .. 5 :
        /\ workflow_objects[w].steps[s].prerequisites # <<>>
        /\ workflow_objects[w].steps[s].status = COMPLETED
        /\ workflow_result.call = "execute_workflow_step"
        /\ workflow_result.success


\* C28: each of the four templates can be driven to completion.  With a fresh
\* instance and each call executing the step the last answer named, every
\* call succeeds and completes one more step; the answer names a next step
\* while a step is still PENDING, and that step is PENDING with its
\* prerequisites completed; the workflow is COMPLETED exactly after
\* len(steps) executions, with progress_percentage 100 and next_step None.
C28_DrivenToCompletion ==
    (workflow_objects # <<>> /\ ~step_calls[1].active) =>
        LET workflow == workflow_objects[1]
            steps == workflow.steps
            done == {i \in DOMAIN steps : steps[i].status = COMPLETED}
            pending == {i \in DOMAIN steps : steps[i].status = PENDING}
            next_step == workflow_result.next_step
        IN  /\ workflow_result.success
            /\ Cardinality(done) = step_calls_made
            /\ done \cup pending = DOMAIN steps
            /\ pending # {} <=> next_step # <<>>
            /\ next_step # <<>> =>
                  \E i \in pending :
                      /\ steps[i].step_id = next_step[1]
                      /\ \A p \in DOMAIN steps[i].prerequisites :
                            \E j \in done : steps[j].step_id = steps[i].prerequisites[p]
            /\ workflow.status = COMPLETED <=> step_calls_made = Len(steps)
            /\ workflow.status # COMPLETED => workflow.status = IN_PROGRESS
            /\ workflow.progress_percentage = 20 * step_calls_made
            /\ step_calls_made = Len(steps) =>
                  /\ workflow_result.workflow_status = COMPLETED
                  /\ workflow_result.workflow_progress = 100
                  /\ next_step = <<>>
\* the template with an optional last step, driven to its completion
C28_IrrigationPlanningCompleted ==
    /\ workflow_objects # <<>>
    /\ workflow_objects[1].workflow_id = "irrigation_planning"
    /\ workflow_objects[1].status = COMPLETED
    /\ step_calls_made = 5
    /\ workflow_result.next_step = <<>>


\* C29: in every reachable state of a workflow instance, the states seen while
\* a call waits on its tools included, the workflow status is COMPLETED if and
\* only if every step, optional or not, has status COMPLETED; also when a
\* COMPLETED step is executed again.
C29_CompletedIffAllSteps ==
    \A w \in DOMAIN workflow_objects :
        workflow_objects[w].status = COMPLETED
            <=> \A i \in DOMAIN workflow_objects[w].steps : workflow_objects[w].steps[i].status = COMPLETED


\* C30: every successful start_workflow returns an instance_id that was not
\* yet a key of user_workflow_instances, so a start never replaces or resets
\* an instance that exists; also for two starts by one user of one workflow
\* within the same second of the clock.
C30_FreshInstanceId ==
    [][(workflow_result'.call = "start_workflow" /\ workflow_result' # workflow_result
          /\ workflow_result'.success) =>
            /\ workflow_result'.instance_id \notin DOMAIN user_workflow_instances
            /\ \A k \in DOMAIN user_workflow_instances :
                  /\ k \in DOMAIN user_workflow_instances'
                  /\ user_workflow_instances'[k] = user_workflow_instances[k]
                  /\ workflow_objects'[user_workflow_instances'[k]] = workflow_objects[user_workflow_instances[k]]
                  /\ db_workflow_instances'[k] = db_workflow_instances[k]
    ]_vars

====
